---- MODULE Spec2Model ----
(***************************************************************************)
(* Model of the digital-voting repository: the vote object and its         *)
(* verification (subcrates/protocol), the node's HTTP vote handler         *)
(* (src/api/server.rs), the in-memory hash chain (src/chain), the          *)
(* persistent ledger (subcrates/blockchain over subcrates/process_io),     *)
(* the batcher (src/batcher) and the voter client's vote submission        *)
(* (subcrates/client).                                                     *)
(*                                                                         *)
(* Byte strings are sequences of naturals.  The cryptographic primitives   *)
(* of the external crates (ring Ed25519, blind_rsa_signatures, SHA-256,    *)
(* BLAKE3) are modelled symbolically: a signature is valid exactly when    *)
(* it was produced by the matching secret key over the same message, and   *)
(* a digest stands for its preimage (no collisions).                       *)
(***************************************************************************)
EXTENDS Integers, Sequences, FiniteSets, TLC

VARIABLES
    vote,          \* protocol::vote::Vote under construction / verification
    verifiers,     \* access_token_verifiers argument of Vote::verify
    limits,        \* timestamp_limits argument of Vote::verify
    result,        \* outcome of the last Vote::verify call
    origin,        \* how the tokens of `vote` were obtained
    replaced,      \* the field of `vote` replaced after it verified
    config,        \* State.blockchain_config of the node
    served,        \* the POST /vote requests answered so far, with status
    blocks,        \* chain::blockchain::Blockchain.blocks (in-memory chain)
    tamper,        \* record of the modification made to the in-memory chain
    chain_file,    \* the file written by VotingSystem::save_to_file
    loaded,        \* the VotingSystem returned by load_from_file
    block_count,   \* blockchain::Blockchain.block_count (persistent ledger)
    last_hash,     \* blockchain::Blockchain.last_hash
    storage,       \* the redb table: height -> serialized block
    appended,      \* the blocks passed to successful add_block calls
    add_errors,    \* number of add_block calls that failed in storage
    last_op,       \* the last ledger operation and its outcome
    opened,        \* the process holds a Blockchain value (new returned Ok)
    table_created, \* the redb table exists (a write to it has committed)
    batch_size,    \* batcher::Batcher.batch_size
    size_arg,      \* the batch_size argument Batcher::new was called with
    batch,         \* Batcher.batch, the internal buffer
    chan,          \* the items queued in the mpsc channel (tx -> Batcher.rx)
    closed,        \* every Sender of the channel has been dropped
    deadline_passed, \* Utc::now() is later than Batcher.next_batch_time
    sent,          \* number of items sent so far; the items are 1..sent
    returned_items,  \* concatenation of all batches returned so far
    last_batch,    \* the batch returned last
    last_ret,      \* which call returned last_batch: wait_for_batch or flush
    bpc,           \* position of the consumer inside wait_for_batch
    call,          \* what held when the running wait_for_batch call started
    token_vec,     \* client: the AccessTokens signal, one Option per authority
    sel_candidate, \* client: the selected_candidate signal
    sel_node,      \* client: the selected_node signal
    local_storage, \* client: the browser's local storage, key -> Storage
    voted,         \* client: the candidate signal written by set_candidate
    client_error,  \* client: the error signal written by set_error
    requests,      \* client: the vote submissions spawned by send_vote
    last_send,     \* client: number and result of the send_vote calls
    token_op,      \* client: the last AccessTokens::set call and its outcome
    st,            \* client state machine: the State struct's signals
    key_store,     \* client state machine: the stored, encrypted KeyStore
    st_op,         \* client state machine: the last State call, its outcome
    browser,       \* user profile: the browser's local storage, key -> Storage
    user_signal,   \* user profile: the user signal, Option<User>
    accounts,      \* user profile: per username, the password of the standing
                   \* registration and the keys written since it was made
    user_op,       \* user profile: the last User call and its outcome
    blind_run,     \* crypto: one blind-signature exchange, step by step
    sym,           \* crypto: one encryption and the decryption tried on it
    auth_file,     \* authority: the content of authority-config.json
    auth_signer,   \* authority: the BlindSigner setup_blind_signer returned
    auth_op        \* authority: the last start of the authority process

vars == <<vote, verifiers, limits, result, origin, replaced, config, served,
          blocks, tamper, chain_file, loaded, block_count, last_hash, storage, appended,
          add_errors, last_op, opened, table_created,
          batch_size, size_arg, batch, chan, closed, deadline_passed, sent,
          returned_items, last_batch, last_ret, bpc, call,
          token_vec, sel_candidate, sel_node, local_storage, voted,
          client_error, requests, last_send, token_op,
          st, key_store, st_op, browser, user_signal, accounts,
          user_op, blind_run, sym, auth_file, auth_signer, auth_op>>

voteVars == <<vote, verifiers, limits, result, origin, replaced>>
nodeVars == <<config, served>>
chainVars == <<blocks, tamper, chain_file, loaded>>
ledgerVars == <<block_count, last_hash, storage, appended, add_errors, last_op,
               opened, table_created>>
batcherVars == <<batch_size, size_arg, batch, chan, closed, deadline_passed,
                 sent, returned_items, last_batch, last_ret, bpc, call>>
clientVars == <<token_vec, sel_candidate, sel_node, local_storage, voted,
                client_error, requests, last_send, token_op>>
stateVars == <<st, key_store, st_op>>
userVars == <<browser, user_signal, accounts, user_op>>
cryptoVars == <<blind_run, sym>>
authorityVars == <<auth_file, auth_signer, auth_op>>
extVars == <<stateVars, userVars, cryptoVars, authorityVars>>
coreVars == <<voteVars, nodeVars, chainVars, ledgerVars, batcherVars,
              clientVars>>

----------------------------------------------------------------------------
(* Bounds *)

NSigners == 2          \* voter signing keys
NAuthorities == 2      \* election authorities
NSalts == 2            \* blinding randomness / PSS salts
MaxTime == 4           \* timestamps range over 0..MaxTime (nanoseconds)
MaxCandidate == 2      \* candidate ids range over 0..MaxCandidate
MaxTokens == 2         \* longest access-token list tried

SignerKeys == 1..NSigners
AuthorityKeys == 1..NAuthorities
Salts == 1..NSalts
Timestamps == 0..MaxTime
CandidateIds == 0..MaxCandidate

----------------------------------------------------------------------------
(* Byte-string helpers *)

RECURSIVE Concat(_)
Concat(seqs) == IF seqs = <<>> THEN <<>> ELSE Head(seqs) \o Concat(Tail(seqs))

Drop(s, n) == SubSeq(s, n + 1, Len(s))

RECURSIVE Digits(_)
Digits(n) == IF n < 10 THEN <<n>> ELSE Digits(n \div 10) \o <<n % 10>>

\* Parse of a number from its decimal digits (serde_json, chrono).
RECURSIVE FromDigits(_)
FromDigits(ds) ==
    IF ds = <<>> THEN 0
    ELSE 10 * FromDigits(SubSeq(ds, 1, Len(ds) - 1)) + ds[Len(ds)]

----------------------------------------------------------------------------
(* crypto::signature::digital_sign *)

\* Signer::get_public_key: the public half of key pair sk.
get_public_key(sk) == <<200 + sk>>

\* Signer::sign: deterministic Ed25519 signature of message under sk.
sign(sk, message) == <<sk>> \o message

\* digital_sign::verify: Ok exactly for the signature the owner of
\* peer_public_key produces over message.
digital_verify(message, signature, peer_public_key) ==
    /\ Len(signature) >= 1
    /\ get_public_key(signature[1]) = peer_public_key
    /\ Drop(signature, 1) = message

----------------------------------------------------------------------------
(* crypto::signature::blind_sign *)

\* BlindSigner::get_public_key
authority_public_key(ask) == <<100 + ask>>

\* Blinder::blind: randomized by the blinding factor r and the PSS salt.
blind(pk, msg, r, salt) ==
    [blind_msg |-> <<pk[1], r, salt>> \o msg, secret |-> <<r>>]

\* BlindSigner::bling_sign
bling_sign(ask, blinded_msg) == <<ask>> \o blinded_msg

\* Verifier::verify_signature
verify_signature(pk, signature, msg) ==
    /\ Len(signature) >= 2
    /\ authority_public_key(signature[1]) = pk
    /\ signature[2] \in Salts
    /\ Drop(signature, 2) = msg

\* Unblinder::unblind_signature: removes the blinding factor and checks the
\* resulting signature (finalize), failing when it does not verify.
unblind_signature(pk, secret, blind_signature, msg) ==
    IF secret = <<>> THEN [ok |-> FALSE, sig |-> <<>>]
    ELSE IF /\ Len(blind_signature) >= 4
            /\ blind_signature[2] = pk[1]
            /\ blind_signature[3] = secret[1]
            /\ Drop(blind_signature, 4) = msg
            /\ verify_signature(pk, <<blind_signature[1], blind_signature[4]>> \o msg, msg)
         THEN [ok |-> TRUE, sig |-> <<blind_signature[1], blind_signature[4]>> \o msg]
         ELSE [ok |-> FALSE, sig |-> <<>>]

\* The honest exchange of generate_vote_for_testing with authority ask.
honest_access_token(ask, msg, r, salt) ==
    LET pk == authority_public_key(ask)
        b == blind(pk, msg, r, salt)
        bs == bling_sign(ask, b.blind_msg)
    IN unblind_signature(pk, b.secret, bs, msg)

----------------------------------------------------------------------------
(* protocol::timestamp *)

\* Limits::new fails when lower > upper; the valid Limits values.
LimitsSet == {l \in [lower : 1..(MaxTime - 1), upper : 1..(MaxTime - 1)] :
                l.lower <= l.upper}

LimitsVerifyStrict(l, timestamp) ==
    timestamp > l.lower /\ timestamp < l.upper

\* Limits::verify
LimitsVerify(l, timestamp) ==
    timestamp >= l.lower /\ timestamp <= l.upper

----------------------------------------------------------------------------
(* protocol::vote *)

\* CandidateId::to_le_bytes for the u8 candidate id.
to_le_bytes(candidate) == <<candidate % 256>>

\* bincode::serialize(&timestamp): chrono serializes the timestamp as text,
\* bincode writes the length followed by the characters.
serialize_timestamp(timestamp) ==
    LET text == Digits(timestamp) IN <<Len(text)>> \o text

signed_bytes_no_candidate(public_key, candidate, timestamp, access_tokens) ==
    public_key \o Concat(access_tokens) \o serialize_timestamp(timestamp)

\* Vote::signed_bytes
signed_bytes(public_key, candidate, timestamp, access_tokens) ==
    public_key \o to_le_bytes(candidate) \o Concat(access_tokens)
        \o serialize_timestamp(timestamp)

VoteNewSignsBeforeTokens(signer, candidate, timestamp, access_tokens) ==
    LET public_key == get_public_key(signer)
        to_sign == signed_bytes(public_key, candidate, timestamp, <<>>)
    IN [public_key |-> public_key,
        candidate |-> candidate,
        timestamp |-> timestamp,
        access_tokens |-> access_tokens,
        signature |-> sign(signer, to_sign)]

\* Vote::new
VoteNew(signer, candidate, timestamp, access_tokens) ==
    LET public_key == get_public_key(signer)
        to_sign == signed_bytes(public_key, candidate, timestamp, access_tokens)
    IN [public_key |-> public_key,
        candidate |-> candidate,
        timestamp |-> timestamp,
        access_tokens |-> access_tokens,
        signature |-> sign(signer, to_sign)]

\* The token loop of Vote::verify, from index i on: indexing the verifier
\* slice past its end aborts; the first token that fails ends the loop.
RECURSIVE VerifyTokensFrom(_, _, _)
VerifyTokensFrom(v, access_token_verifiers, i) ==
    IF i > Len(v.access_tokens) THEN "Ok"
    ELSE IF i > Len(access_token_verifiers) THEN "Panic"
    ELSE IF ~verify_signature(access_token_verifiers[i], v.access_tokens[i],
                              v.public_key)
         THEN "AccessTokenVerification"
    ELSE VerifyTokensFrom(v, access_token_verifiers, i + 1)

VoteVerifySignatureFirst(v, access_token_verifiers, timestamp_limits) ==
    IF ~LimitsVerify(timestamp_limits, v.timestamp) THEN "InvalidTimestmap"
    ELSE IF ~digital_verify(signed_bytes(v.public_key, v.candidate,
                                         v.timestamp, v.access_tokens),
                            v.signature, v.public_key)
         THEN "SignatureVerification"
         ELSE VerifyTokensFrom(v, access_token_verifiers, 1)

\* Vote::verify
VoteVerify(v, access_token_verifiers, timestamp_limits) ==
    IF ~LimitsVerify(timestamp_limits, v.timestamp) THEN "InvalidTimestmap"
    ELSE LET tokens == VerifyTokensFrom(v, access_token_verifiers, 1) IN
         IF tokens # "Ok" THEN tokens
         ELSE IF digital_verify(signed_bytes(v.public_key, v.candidate,
                                             v.timestamp, v.access_tokens),
                                v.signature, v.public_key)
              THEN "Ok"
              ELSE "SignatureVerification"

ErrorResults == {"InvalidTimestmap", "AccessTokenVerification", "SignatureVerification"}

----------------------------------------------------------------------------
(* Inputs and defaults shared by the specifications *)

NoVote == [public_key |-> <<>>, candidate |-> 0, timestamp |-> 0,
           access_tokens |-> <<>>, signature |-> <<>>]

\* Verifier lists tried: none, one authority, two authorities in both orders.
VerifierLists ==
    {<<>>} \cup {<<authority_public_key(a)>> : a \in AuthorityKeys}
           \cup {<<authority_public_key(p[1]), authority_public_key(p[2])>> :
                    p \in {q \in AuthorityKeys \X AuthorityKeys : q[1] # q[2]}}

AuthorityOf(pk) == CHOOSE a \in AuthorityKeys : authority_public_key(a) = pk

\* Tokens a client may put at a position of a vote it builds for signer sk:
\* its own token of any authority, a token issued to another voter, or
\* empty bytes.
TokenChoices(sk) ==
    {honest_access_token(a, get_public_key(sk), 1, 1).sig : a \in AuthorityKeys}
    \cup {honest_access_token(1, get_public_key(o), 1, 1).sig :
             o \in SignerKeys \ {sk}}
    \cup {<<>>}

\* Every token some authority issued to some voter, and empty bytes.
TokenUniverse ==
    {honest_access_token(a, get_public_key(sk), 1, s).sig :
        a \in AuthorityKeys, sk \in SignerKeys, s \in Salts} \cup {<<>>}

TokenLists(sk) ==
    UNION {[1..n -> TokenChoices(sk)] : n \in 0..MaxTokens}

DefaultConfig == [start |-> 1, end |-> 1, authorities |-> <<>>, candidates |-> <<>>]
DefaultLimits == [lower |-> 1, upper |-> 1]
NoTamper == [done |-> FALSE, height |-> 0, len |-> 0, field |-> "none"]
NoChainFile == [exists |-> FALSE, bytes |-> <<>>, saved |-> <<>>]
NoLoaded == [done |-> FALSE, blocks |-> <<>>, from |-> <<>>]

\* The all-zero hash: Hash([0; 32]) of the in-memory chain, Hash::zero() of
\* the persistent ledger.
ZeroHash == <<0>>

\* A digest of the external hash crates (SHA-256, BLAKE3): a non-zero byte
\* string determined by the hashed bytes, different for different input.
Digest(bytes) == <<1>> \o bytes

EmptyTable == [k \in {} |-> <<>>]

VoteIdle ==
    /\ vote = NoVote /\ verifiers = <<>> /\ limits = DefaultLimits
    /\ result = "none" /\ origin = "none" /\ replaced = "none"
NodeIdle == config = DefaultConfig /\ served = <<>>
ChainIdle ==
    /\ blocks = <<>> /\ tamper = NoTamper
    /\ chain_file = NoChainFile /\ loaded = NoLoaded
LedgerIdle ==
    /\ block_count = 0 /\ last_hash = ZeroHash /\ storage = EmptyTable
    /\ appended = <<>> /\ add_errors = 0 /\ last_op = "none"
    /\ opened = FALSE /\ table_created = FALSE
NoCall == [pending |-> 0, closed |-> FALSE, late |-> FALSE]
BatcherIdle ==
    /\ batch_size = 0 /\ size_arg = 0 /\ batch = <<>> /\ chan = <<>>
    /\ closed = FALSE /\ deadline_passed = FALSE /\ sent = 0
    /\ returned_items = <<>> /\ last_batch = <<>> /\ last_ret = "none"
    /\ bpc = "idle" /\ call = NoCall
NoneToken == [some |-> FALSE, v |-> <<>>]
NoneId == [some |-> FALSE, v |-> 0]
NoneNode == [some |-> FALSE, v |-> ""]
NoError == <<"", "", 0>>
NoRecords == [k \in {} |-> <<>>]
NoTokenOp ==
    [n |-> 0, op |-> "none", index |-> 0, access_token |-> NoneToken,
     signed_by |-> 0, blinded_for |-> 0, ok |-> FALSE, error |-> ""]
ClientIdle ==
    /\ token_vec = <<>> /\ sel_candidate = NoneId /\ sel_node = NoneNode
    /\ local_storage = NoRecords /\ voted = NoneId /\ client_error = NoError
    /\ requests = <<>> /\ last_send = [n |-> 0, result |-> "none"]
    /\ token_op = NoTokenOp
CoreIdle ==
    /\ VoteIdle /\ NodeIdle /\ ChainIdle /\ LedgerIdle /\ BatcherIdle
    /\ ClientIdle

\* State::default(): every signal of the client state machine holds None.
NoneEncryption == [some |-> FALSE, v |-> [key |-> <<"", 0, 0>>, uuid |-> 0]]
NoneUnblinder == [some |-> FALSE, v |-> [pk |-> <<>>, secret |-> <<>>]]
StateNew ==
    [encryption |-> NoneEncryption, signer |-> NoneId,
     authority_key |-> NoneToken, blinded_pk |-> NoneToken,
     unblinder |-> NoneUnblinder, access_token |-> NoneToken,
     candidate |-> NoneId]
NoStorage ==
    [some |-> FALSE, v |-> [metadata |-> <<0, 0>>, encrypted_bytes |-> <<>>]]
NoStateOp == [op |-> "none", status |-> "LoggedOut", ok |-> TRUE]
StateIdle == st = StateNew /\ key_store = NoStorage /\ st_op = NoStateOp

\* No user is logged in and nothing is stored.
UserNames == {"alice", "bob"}
NoneUser ==
    [some |-> FALSE,
     v |-> [username |-> "", encryption |-> NoneEncryption.v,
            blockchains |-> <<>>]]
NoAccount == [some |-> FALSE, password |-> 0, written |-> {}]
NoUserOp ==
    [n |-> 0, op |-> "none", ok |-> TRUE, error |-> "", username |-> "",
     blockchain |-> ""]
UserIdle ==
    /\ browser = NoRecords /\ user_signal = NoneUser
    /\ accounts = [u \in UserNames |-> NoAccount] /\ user_op = NoUserOp

\* No blind-signature exchange and no encryption has started.
NoBlindExchange ==
    [stage |-> "start", signer |-> [pk |-> 0, sk |-> 0], msg |-> <<>>,
     blind_msg |-> <<>>, unblinder |-> [pk |-> <<>>, secret |-> <<>>],
     blind_signature |-> <<>>, token |-> [ok |-> FALSE, sig |-> <<>>],
     signer_rebuilt |-> FALSE, unblinder_rebuilt |-> FALSE]
NoRoundTrip ==
    [stage |-> "start", username |-> "", password |-> 0, plaintext |-> <<>>,
     metadata |-> <<0, 0>>, bytes |-> <<>>, with_username |-> "",
     with_password |-> 0,
     result |-> [ok |-> FALSE, plaintext |-> <<>>, error |-> "none"]]
CryptoIdle == blind_run = NoBlindExchange /\ sym = NoRoundTrip

\* The authority has never been started: no config file, no signer.
NoFile == [exists |-> FALSE, bytes |-> <<>>]
NoSigner == [some |-> FALSE, v |-> [pk |-> 0, sk |-> 0]]
NoAuthorityOp ==
    [n |-> 0, op |-> "none", new_keys |-> FALSE, loaded |-> FALSE,
     generated |-> FALSE, ok |-> TRUE, last_generated |-> [pk |-> 0, sk |-> 0]]
AuthorityIdle ==
    auth_file = NoFile /\ auth_signer = NoSigner /\ auth_op = NoAuthorityOp
ExtIdle == StateIdle /\ UserIdle /\ CryptoIdle /\ AuthorityIdle

----------------------------------------------------------------------------
(* Specification of the vote object: Vote::new, Vote::verify *)

InitVote ==
    /\ vote = NoVote
    /\ verifiers \in VerifierLists
    /\ limits \in LimitsSet
    /\ result = "none" /\ origin = "none" /\ replaced = "none"
    /\ NodeIdle /\ ChainIdle /\ LedgerIdle /\ BatcherIdle /\ ClientIdle
    /\ ExtIdle

\* A voter collects one token from every authority, in the order of the
\* verifiers, by blind -> bling_sign -> unblind_signature, then Vote::new.
VoteNewHonest ==
    /\ origin = "none"
    /\ \E sk \in SignerKeys, candidate \in CandidateIds,
          timestamp \in Timestamps, r \in Salts, salt \in Salts :
        LET msg == get_public_key(sk)
            exchange == [i \in 1..Len(verifiers) |->
                honest_access_token(AuthorityOf(verifiers[i]), msg, r, salt)]
        IN /\ \A i \in 1..Len(verifiers) : exchange[i].ok
           /\ vote' = VoteNew(sk, candidate, timestamp,
                              [i \in 1..Len(verifiers) |-> exchange[i].sig])
    /\ origin' = "honest"
    /\ UNCHANGED <<verifiers, limits, result, replaced>>
    /\ UNCHANGED <<nodeVars, chainVars, ledgerVars, batcherVars,
                 clientVars, extVars>>

\* Vote::new over an arbitrary list of tokens.
VoteNewAny ==
    /\ origin = "none"
    /\ \E sk \in SignerKeys, candidate \in CandidateIds, timestamp \in Timestamps :
        \E tokens \in TokenLists(sk) :
            vote' = VoteNew(sk, candidate, timestamp, tokens)
    /\ origin' = "any"
    /\ UNCHANGED <<verifiers, limits, result, replaced>>
    /\ UNCHANGED <<nodeVars, chainVars, ledgerVars, batcherVars,
                 clientVars, extVars>>

\* vote.verify(&verifiers, &limits)
VerifyVote ==
    /\ origin # "none"
    /\ result = "none"
    /\ result' = VoteVerify(vote, verifiers, limits)
    /\ UNCHANGED <<vote, verifiers, limits, origin, replaced>>
    /\ UNCHANGED <<nodeVars, chainVars, ledgerVars, batcherVars,
                 clientVars, extVars>>

\* The values a field of vote v may be replaced by.
SignatureReplacements(v) ==
    {sign(sk, signed_bytes(v.public_key, c, t, v.access_tokens)) :
        sk \in SignerKeys, c \in CandidateIds, t \in Timestamps} \cup {<<>>}
PublicKeyReplacements == {get_public_key(sk) : sk \in SignerKeys} \cup {<<>>}

\* A vote that verified has exactly one of its fields replaced by a
\* different value (a vote received from the network is plain data).
ReplaceField ==
    /\ result = "Ok"
    /\ replaced = "none"
    /\ \/ \E s \in SignatureReplacements(vote) :
            /\ s # vote.signature
            /\ vote' = [vote EXCEPT !.signature = s]
            /\ replaced' = "signature"
       \/ \E pk \in PublicKeyReplacements :
            /\ pk # vote.public_key
            /\ vote' = [vote EXCEPT !.public_key = pk]
            /\ replaced' = "public_key"
       \/ \E i \in 1..Len(vote.access_tokens), t \in TokenUniverse :
            /\ t # vote.access_tokens[i]
            /\ vote' = [vote EXCEPT !.access_tokens[i] = t]
            /\ replaced' = "access_tokens"
       \/ \E c \in CandidateIds :
            /\ c # vote.candidate
            /\ vote' = [vote EXCEPT !.candidate = c]
            /\ replaced' = "candidate"
       \/ \E t \in Timestamps :
            /\ t # vote.timestamp
            /\ vote' = [vote EXCEPT !.timestamp = t]
            /\ replaced' = "timestamp"
    /\ result' = "none"
    /\ UNCHANGED <<verifiers, limits, origin>>
    /\ UNCHANGED <<nodeVars, chainVars, ledgerVars, batcherVars,
                 clientVars, extVars>>

NextVote == VoteNewHonest \/ VoteNewAny \/ VerifyVote \/ ReplaceField

SpecVote == InitVote /\ [][NextVote]_vars

----------------------------------------------------------------------------
(* Properties of the vote object, checked under SpecVote *)

InWindow(v) == limits.lower <= v.timestamp /\ v.timestamp <= limits.upper

\* C5: a vote built by Vote::new from a timestamp inside the limits and one
\* honestly obtained token per authority, in the authorities' order, is
\* accepted by verify.
C5_HonestVoteVerifies ==
    (origin = "honest" /\ replaced = "none" /\ result # "none" /\ InWindow(vote))
        => result = "Ok"

C5_Witness ==
    /\ origin = "honest" /\ replaced = "none" /\ result = "Ok"
    /\ Len(vote.access_tokens) = NAuthorities

\* C6: once a vote has verified, replacing any single field (signature,
\* public_key, one access token, candidate, timestamp) by a different value
\* makes verify return an error.
C6_ReplacedFieldRejected ==
    (replaced # "none" /\ result # "none") => result \in ErrorResults

C6_Witness ==
    /\ replaced = "access_tokens" /\ result = "SignatureVerification"

\* C7: verify accepts only a vote carrying exactly one access token per
\* verifier, and answers a surplus of tokens with an error value, never by
\* aborting.
C7_OneTokenPerVerifier ==
    result # "none" =>
        /\ result # "Panic"
        /\ (result = "Ok" => Len(vote.access_tokens) = Len(verifiers))

\* C8: the timestamp check is inclusive on both ends: verify fails with
\* InvalidTimestmap exactly when the timestamp is before the lower or after
\* the upper limit, so the limits themselves pass.
C8_InclusiveLimits ==
    result # "none" =>
        ((result = "InvalidTimestmap")
            <=> (vote.timestamp < limits.lower \/ vote.timestamp > limits.upper))

C8_Witness ==
    /\ limits.lower = limits.upper
    /\ vote.timestamp = limits.lower
    /\ result = "Ok"

\* Token i of the vote has a verifier at its index and fails under it.
InvalidToken(i) ==
    /\ i <= Len(verifiers)
    /\ ~verify_signature(verifiers[i], vote.access_tokens[i], vote.public_key)

SignatureValid ==
    digital_verify(signed_bytes(vote.public_key, vote.candidate,
                                vote.timestamp, vote.access_tokens),
                   vote.signature, vote.public_key)

\* C32: verify checks the timestamp, then the access tokens in index order,
\* then the signature, and reports the first failure: a timestamp outside
\* the limits gives InvalidTimestmap whatever the tokens and the signature
\* are; a timestamp in range and a token that fails under its verifier give
\* AccessTokenVerification whatever the signature is; SignatureVerification
\* is returned only when the timestamp and every token are valid.
C32_FirstFailureReported ==
    result # "none" =>
        /\ ~InWindow(vote) => result = "InvalidTimestmap"
        /\ (InWindow(vote)
              /\ \E i \in 1..Len(vote.access_tokens) : InvalidToken(i))
                => result = "AccessTokenVerification"
        /\ result = "SignatureVerification" =>
              /\ InWindow(vote)
              /\ \A i \in 1..Len(vote.access_tokens) :
                    i <= Len(verifiers) /\ ~InvalidToken(i)

\* A vote in the window whose second token fails and whose signature fails
\* as well is answered with the token error.
C32_Witness ==
    /\ result = "AccessTokenVerification"
    /\ InWindow(vote) /\ ~SignatureValid
    /\ Len(vote.access_tokens) = 2
    /\ ~InvalidToken(1) /\ InvalidToken(2)

----------------------------------------------------------------------------
(* Specification of the node: src/api/server.rs, src/state.rs *)

MaxRequests == 3       \* POST /vote requests handled in one run

\* Election configs the node is started with (State::new): a window, the
\* authorities' keys in order and the candidate ids.
NodeConfigs ==
    {[start |-> 1, end |-> 2, authorities |-> a, candidates |-> <<0, 1>>] :
        a \in VerifierLists \ {<<>>}}

\* The well-formed votes sent to the node: built by Vote::new for a signer,
\* carrying one honest token per authority of the config or none at all,
\* stamped at the start of the window or after its end.
NodeVotes(cfg) ==
    LET honest(sk) == [i \in 1..Len(cfg.authorities) |->
            honest_access_token(AuthorityOf(cfg.authorities[i]),
                                get_public_key(sk), 1, 1).sig]
    IN UNION {{VoteNew(sk, c, t, honest(sk)), VoteNew(sk, c, t, <<>>)} :
                sk \in SignerKeys, c \in CandidateIds, t \in {cfg.start, cfg.end + 1}}

InitNode ==
    /\ config \in NodeConfigs
    /\ served = <<>>
    /\ VoteIdle /\ ChainIdle /\ LedgerIdle /\ BatcherIdle /\ ClientIdle
    /\ ExtIdle

\* #[post("/vote")] vote(vote: web::Json<Vote>): logs the vote and answers
\* HttpResponse::Ok().
HandleVote ==
    /\ Len(served) < MaxRequests
    /\ \E v \in NodeVotes(config) :
        served' = Append(served, [vote |-> v, status |-> 200])
    /\ UNCHANGED config
    /\ UNCHANGED <<voteVars, chainVars, ledgerVars, batcherVars,
                 clientVars, extVars>>

NextNode == HandleVote

SpecNode == InitNode /\ [][NextNode]_vars

\* The verification the election config calls for.
ConfigLimits(cfg) == [lower |-> cfg.start, upper |-> cfg.end]
ConfigCandidates(cfg) == {cfg.candidates[i] : i \in 1..Len(cfg.candidates)}

\* C1: no two votes answered 200 carry the same access-token tuple.
C1_NoDoubleVote ==
    \A i \in 1..Len(served), j \in 1..Len(served) :
        (i < j /\ served[i].status = 200 /\ served[j].status = 200)
            => served[i].vote.access_tokens # served[j].vote.access_tokens

\* C2: a vote is answered 200 only if it passes Vote::verify against the
\* election config and names a candidate of the config.
C2_OnlyValidVotesAccepted ==
    \A i \in 1..Len(served) :
        served[i].status = 200 =>
            /\ VoteVerify(served[i].vote, config.authorities,
                          ConfigLimits(config)) = "Ok"
            /\ served[i].vote.candidate \in ConfigCandidates(config)

----------------------------------------------------------------------------
(* Specification of the in-memory chain: src/chain/blockchain.rs, src/lib.rs *)

MaxBlocks == 3         \* blocks added to the in-memory chain
MaxBlockVotes == 1     \* votes per block

\* digital_voting::Vote values, and the clock readings of Block::new
ChainVotes == {[voter_pkey |-> 1, candidate_id |-> 0, timestamp |-> 0],
               [voter_pkey |-> 2, candidate_id |-> 1, timestamp |-> 1]}
ChainTimes == {0, 1}
ChainValues == UNION {[1..n -> ChainVotes] : n \in 0..MaxBlockVotes}

\* bincode::serialize(&Block<Vote>): the votes behind their count, the
\* timestamp, the previous hash.
SerializeVote(v) == <<v.voter_pkey, v.candidate_id>> \o serialize_timestamp(v.timestamp)
SerializeChainBlock(block) ==
    <<Len(block.values)>> \o Concat([i \in 1..Len(block.values) |->
                                        SerializeVote(block.values[i])])
        \o serialize_timestamp(block.timestamp) \o block.prev_block_hash

get_hash_without_values(block) ==
    Digest(serialize_timestamp(block.timestamp) \o block.prev_block_hash)

\* Block::get_hash
get_hash(block) == Digest(SerializeChainBlock(block))

PrevHashAlwaysZero(bs) == ZeroHash

\* The prev_block_hash Blockchain::add_block gives the new block.
PrevHashForNewBlock(bs) ==
    IF bs # <<>> THEN get_hash(bs[Len(bs)]) ELSE ZeroHash

\* Blockchain::validate_hashes: Ok, or the height of the first block whose
\* prev_block_hash is not the hash of the block before it.
RECURSIVE ValidateFrom(_, _, _)
ValidateFrom(bs, i, prev_block_hash) ==
    IF i > Len(bs) THEN [ok |-> TRUE, height |-> 0]
    ELSE IF bs[i].prev_block_hash # prev_block_hash
         THEN [ok |-> FALSE, height |-> i - 1]
         ELSE ValidateFrom(bs, i + 1, get_hash(bs[i]))

validate_hashes_nonzero_start(bs) == ValidateFrom(bs, 1, Digest(<<>>))

validate_hashes(bs) == ValidateFrom(bs, 1, ZeroHash)

\* VotingSystem::validate
validate(bs) == IF validate_hashes(bs).ok THEN "Ok" ELSE "VotesTampered"

\* VotingSystem::tally_votes: per candidate id that received a vote, the
\* number of votes in all blocks.
AllVotes(bs) == Concat([i \in 1..Len(bs) |-> bs[i].values])
tally_votes(bs) ==
    LET votes == AllVotes(bs)
        voted_for == {votes[i].candidate_id : i \in 1..Len(votes)}
    IN [c \in voted_for |->
            Cardinality({i \in 1..Len(votes) : votes[i].candidate_id = c})]

\* bincode::serialize_into(file, &Blockchain<Vote>): the blocks behind
\* their count.
SerializeBlockchain(bs) ==
    <<Len(bs)>> \o Concat([i \in 1..Len(bs) |-> SerializeChainBlock(bs[i])])

\* bincode::deserialize_from(file), field by field; each reader returns the
\* value read and the position behind it.
ReadTimestamp(bytes, pos) ==
    LET n == bytes[pos]
    IN [value |-> FromDigits(SubSeq(bytes, pos + 1, pos + n)),
        next |-> pos + 1 + n]

ReadVoteDefaultCandidate(bytes, pos) ==
    LET t == ReadTimestamp(bytes, pos + 2)
    IN [value |-> [voter_pkey |-> bytes[pos], candidate_id |-> 0,
                   timestamp |-> t.value],
        next |-> t.next]

ReadVote(bytes, pos) ==
    LET t == ReadTimestamp(bytes, pos + 2)
    IN [value |-> [voter_pkey |-> bytes[pos], candidate_id |-> bytes[pos + 1],
                   timestamp |-> t.value],
        next |-> t.next]

RECURSIVE ReadVotes(_, _, _)
ReadVotes(bytes, pos, n) ==
    IF n = 0 THEN [value |-> <<>>, next |-> pos]
    ELSE LET v == ReadVote(bytes, pos)
             rest == ReadVotes(bytes, v.next, n - 1)
         IN [value |-> <<v.value>> \o rest.value, next |-> rest.next]

\* A Hash is read as the fixed-size array it is: here the zero hash, or the
\* digest marker followed by the bytes of the hashed block.
RECURSIVE ReadBlock(_, _)
RECURSIVE ReadHash(_, _)
ReadHash(bytes, pos) ==
    IF bytes[pos] = 0 THEN [value |-> ZeroHash, next |-> pos + 1]
    ELSE LET b == ReadBlock(bytes, pos + 1)
         IN [value |-> SubSeq(bytes, pos, b.next - 1), next |-> b.next]

ReadBlock(bytes, pos) ==
    LET vs == ReadVotes(bytes, pos + 1, bytes[pos])
        t == ReadTimestamp(bytes, vs.next)
        h == ReadHash(bytes, t.next)
    IN [value |-> [values |-> vs.value, timestamp |-> t.value,
                   prev_block_hash |-> h.value],
        next |-> h.next]

RECURSIVE ReadBlocks(_, _, _)
ReadBlocks(bytes, pos, n) ==
    IF n = 0 THEN [value |-> <<>>, next |-> pos]
    ELSE LET b == ReadBlock(bytes, pos)
             rest == ReadBlocks(bytes, b.next, n - 1)
         IN [value |-> <<b.value>> \o rest.value, next |-> rest.next]

DeserializeBlockchain(bytes) == ReadBlocks(bytes, 2, bytes[1]).value

InitChain ==
    /\ blocks = <<>>
    /\ tamper = NoTamper
    /\ chain_file = NoChainFile
    /\ loaded = NoLoaded
    /\ VoteIdle /\ NodeIdle /\ LedgerIdle /\ BatcherIdle /\ ClientIdle
    /\ ExtIdle

\* VotingSystem::add_votes -> Blockchain::add_block -> Block::new
AddVotes ==
    /\ Len(blocks) < MaxBlocks
    /\ \E block_value \in ChainValues, now \in ChainTimes :
        blocks' = Append(blocks, [values |-> block_value,
                                  timestamp |-> now,
                                  prev_block_hash |-> PrevHashForNewBlock(blocks)])
    /\ UNCHANGED <<tamper, chain_file, loaded>>
    /\ UNCHANGED <<voteVars, nodeVars, ledgerVars, batcherVars,
                 clientVars, extVars>>

\* The values of one stored block are changed behind the chain's back (the
\* file written by save_to_file is edited and read by load_from_file).
TamperValues ==
    /\ ~tamper.done
    /\ \E h \in 1..Len(blocks), block_value \in ChainValues :
        /\ block_value # blocks[h].values
        /\ blocks' = [blocks EXCEPT ![h].values = block_value]
        /\ tamper' = [done |-> TRUE, height |-> h - 1, len |-> Len(blocks),
                      field |-> "values"]
    /\ UNCHANGED <<chain_file, loaded>>
    /\ UNCHANGED <<voteVars, nodeVars, ledgerVars, batcherVars,
                 clientVars, extVars>>

\* The timestamp of one stored block is changed in the same way.
TamperTimestamp ==
    /\ ~tamper.done
    /\ \E h \in 1..Len(blocks), now \in ChainTimes :
        /\ now # blocks[h].timestamp
        /\ blocks' = [blocks EXCEPT ![h].timestamp = now]
        /\ tamper' = [done |-> TRUE, height |-> h - 1, len |-> Len(blocks),
                      field |-> "timestamp"]
    /\ UNCHANGED <<chain_file, loaded>>
    /\ UNCHANGED <<voteVars, nodeVars, ledgerVars, batcherVars,
                 clientVars, extVars>>

\* VotingSystem::save_to_file: the file is created or truncated and the
\* chain written to it.
SaveToFile ==
    /\ chain_file' = [exists |-> TRUE, bytes |-> SerializeBlockchain(blocks),
                      saved |-> blocks]
    /\ loaded' = NoLoaded
    /\ UNCHANGED <<blocks, tamper>>
    /\ UNCHANGED <<voteVars, nodeVars, ledgerVars, batcherVars,
                 clientVars, extVars>>

\* VotingSystem::load_from_file: a new system from the bytes of the file.
LoadFromFile ==
    /\ chain_file.exists
    /\ ~loaded.done
    /\ loaded' = [done |-> TRUE,
                  blocks |-> DeserializeBlockchain(chain_file.bytes),
                  from |-> chain_file.saved]
    /\ UNCHANGED <<blocks, tamper, chain_file>>
    /\ UNCHANGED <<voteVars, nodeVars, ledgerVars, batcherVars,
                 clientVars, extVars>>

NextChain == AddVotes \/ TamperValues \/ TamperTimestamp

SpecChain == InitChain /\ [][NextChain]_vars

\* The chain built by add_votes, saved and loaded again.
NextChainFile == AddVotes \/ SaveToFile \/ LoadFromFile

SpecChainFile == InitChain /\ [][NextChainFile]_vars

\* C3: after any sequence of add_block calls validate_hashes returns Ok:
\* block 0 carries the all-zero prev_block_hash and every later block the
\* hash of the block before it.
C3_AddedBlocksValidate ==
    ~tamper.done =>
        /\ validate_hashes(blocks).ok
        /\ validate(blocks) = "Ok"
        /\ \A h \in 1..Len(blocks) :
            blocks[h].prev_block_hash =
                (IF h = 1 THEN ZeroHash ELSE Digest(SerializeChainBlock(blocks[h - 1])))

C3_Witness == ~tamper.done /\ Len(blocks) = MaxBlocks

\* C4: changing the values of a block at height h < n-1 of a chain of n
\* blocks makes validate_hashes fail, the first mismatch being at height
\* h+1, and VotingSystem::validate return VotesTampered.
C4_TamperDetectedAtNextBlock ==
    (tamper.done /\ tamper.height + 1 < tamper.len) =>
        /\ validate_hashes(blocks) = [ok |-> FALSE, height |-> tamper.height + 1]
        /\ validate(blocks) = "VotesTampered"

C4_Witness ==
    /\ tamper.done /\ tamper.height = 0 /\ tamper.len = MaxBlocks
    /\ tamper.field = "values"
    /\ ~validate_hashes(blocks).ok

\* C31: for every system built by add_votes, save_to_file followed by
\* load_from_file gives a system whose chain passes validate() and whose
\* tally_votes() is the tally of the saved system.
C31_SaveLoadKeepsChainAndTally ==
    loaded.done =>
        /\ validate(loaded.blocks) = "Ok"
        /\ tally_votes(loaded.blocks) = tally_votes(loaded.from)

C31_Witness ==
    /\ loaded.done
    /\ Len(loaded.from) = MaxBlocks
    /\ \E c1, c2 \in DOMAIN tally_votes(loaded.from) : c1 # c2

\* C40: validate_hashes compares each block's prev_block_hash with the hash
\* of its predecessor only, so a chain in which only the last block's values
\* or timestamp were altered still passes validate_hashes.
C40_LastBlockNotCovered ==
    (tamper.done /\ tamper.height + 1 = tamper.len) =>
        /\ validate_hashes(blocks).ok
        /\ validate(blocks) = "Ok"

C40_Witness ==
    /\ tamper.done /\ tamper.height + 1 = tamper.len
    /\ tamper.len = MaxBlocks
    /\ tamper.field = "timestamp"

----------------------------------------------------------------------------
(* Specification of the persistent ledger: subcrates/blockchain over       *)
(* subcrates/process_io/src/storage.rs                                     *)

MaxLedgerBlocks == 3   \* blocks appended to the persistent ledger
MaxAddErrors == 1      \* add_block calls that fail in storage

\* The (value_type_id, value) pairs and the creation times of the blocks tried.
BlockPayloads == {[id |-> 0, value |-> <<>>], [id |-> 258, value |-> <<7>>]}
BlockTimes == {[secs |-> 0, nanos |-> 1], [secs |-> 1, nanos |-> 0]}

\* The blocks tried: the empty payload created at a time with nanoseconds,
\* the other payload created on a whole second.
BlockInputs ==
    {i \in BlockPayloads \X BlockTimes : (i[1].id = 0) <=> (i[2].nanos = 1)}

\* Block::new(value_type_id, value, prev_block_hash), stamped now.
BlockNew(value_type_id, value, now, prev_block_hash) ==
    [value_type_id |-> value_type_id, value |-> value,
     timestamp |-> now, prev_block_hash |-> prev_block_hash]

\* u16::to_le_bytes
u16_le_bytes(n) == <<n % 256, (n \div 256) % 256>>

\* Block::calculate_hash: type id, value, unix seconds, previous hash.
calculate_hash(block) ==
    Digest(u16_le_bytes(block.value_type_id) \o block.value
           \o <<block.timestamp.secs>> \o block.prev_block_hash)

\* bincode::serialize(&Block): the type id, the value behind its length,
\* the timestamp, the previous hash behind its length.
SerializeBlock(block) ==
    u16_le_bytes(block.value_type_id)
        \o <<Len(block.value)>> \o block.value
        \o <<block.timestamp.secs, block.timestamp.nanos>>
        \o <<Len(block.prev_block_hash)>> \o block.prev_block_hash

DeserializeBlockWholeSeconds(bytes) ==
    LET n == bytes[3]
        hl == bytes[6 + n]
    IN [value_type_id |-> bytes[1] + 256 * bytes[2],
        value |-> SubSeq(bytes, 4, 3 + n),
        timestamp |-> [secs |-> bytes[4 + n], nanos |-> 0],
        prev_block_hash |-> SubSeq(bytes, 7 + n, 6 + n + hl)]

\* bincode::deserialize::<Block>
DeserializeBlock(bytes) ==
    LET n == bytes[3]
        hl == bytes[6 + n]
    IN [value_type_id |-> bytes[1] + 256 * bytes[2],
        value |-> SubSeq(bytes, 4, 3 + n),
        timestamp |-> [secs |-> bytes[4 + n], nanos |-> bytes[5 + n]],
        prev_block_hash |-> SubSeq(bytes, 7 + n, 6 + n + hl)]

\* Storage::write: table.insert(key, value) and commit.
StorageWrite(table, key, value) ==
    [k \in (DOMAIN table) \cup {key} |-> IF k = key THEN value ELSE table[k]]

\* Storage::read: open_table fails with TableDoesNotExist until a write has
\* created the table; otherwise Some(value) or None.
StorageRead(created, table, key) ==
    IF ~created THEN [ok |-> FALSE, some |-> FALSE, value |-> <<>>]
    ELSE IF key \in DOMAIN table
         THEN [ok |-> TRUE, some |-> TRUE, value |-> table[key]]
         ELSE [ok |-> TRUE, some |-> FALSE, value |-> <<>>]

\* Storage::len: 0 when the table does not exist yet.
StorageLen(created, table) ==
    IF ~created THEN 0 ELSE Cardinality(DOMAIN table)

SaveHeightAfterIncrement(count) == count + 1

\* The height Blockchain::add_block saves the block under.
SaveHeight(count) == count

\* Block::load / Blockchain::get_block: a storage error is passed on by `?`,
\* a missing key becomes WrongKey(height).
get_block(created, table, height) ==
    LET block_bytes == StorageRead(created, table, height) IN
    IF ~block_bytes.ok
    THEN [ok |-> FALSE, block |-> <<>>, err |-> <<"Storage", height>>]
    ELSE IF block_bytes.some
    THEN [ok |-> TRUE, block |-> DeserializeBlock(block_bytes.value),
          err |-> <<"none", height>>]
    ELSE [ok |-> FALSE, block |-> <<>>, err |-> <<"WrongKey", height>>]

\* Blockchain::len
len == block_count

\* Blockchain::is_empty
is_empty == block_count = 0

\* DateTime<Utc> ordering of block timestamps.
TimestampLeq(a, b) ==
    a.secs < b.secs \/ (a.secs = b.secs /\ a.nanos <= b.nanos)

\* Block::verify
BlockVerify(block, previous_hash, timestamp_limits) ==
    /\ TimestampLeq(timestamp_limits.lower, block.timestamp)
    /\ TimestampLeq(block.timestamp, timestamp_limits.upper)
    /\ previous_hash = block.prev_block_hash

\* Blockchain::new on a path without a database.
InitLedger ==
    /\ block_count = 0
    /\ last_hash = ZeroHash
    /\ storage = EmptyTable
    /\ appended = <<>>
    /\ add_errors = 0
    /\ last_op = "none"
    /\ opened = TRUE
    /\ table_created = FALSE
    /\ VoteIdle /\ NodeIdle /\ ChainIdle /\ BatcherIdle /\ ClientIdle
    /\ ExtIdle

\* The hash of the block stored last, the zero hash for an empty ledger:
\* what a caller computes from get_block(len() - 1).
TipHash ==
    IF block_count = 0 THEN ZeroHash
    ELSE calculate_hash(get_block(table_created, storage, block_count - 1).block)

\* The blocks a caller may pass to add_block: linked to the ledger's
\* last_hash as the contract asks, to the hash of the block stored last,
\* or to the zero hash.
LedgerBlocks ==
    {BlockNew(i[1].id, i[1].value, i[2], p) :
        i \in BlockInputs, p \in {last_hash, TipHash, ZeroHash}}

\* Blockchain::add_block(&block) when Block::save succeeds.
AddBlockOk ==
    /\ opened
    /\ block_count < MaxLedgerBlocks
    /\ \E block \in LedgerBlocks :
        /\ last_hash' = calculate_hash(block)
        /\ storage' = StorageWrite(storage, SaveHeight(block_count),
                                   SerializeBlock(block))
        /\ block_count' = block_count + 1
        /\ appended' = Append(appended, block)
    /\ table_created' = TRUE
    /\ last_op' = "add_ok"
    /\ UNCHANGED <<add_errors, opened>>
    /\ UNCHANGED <<voteVars, nodeVars, chainVars, batcherVars,
                 clientVars, extVars>>

\* Blockchain::add_block(&block) when Block::save fails (storage error):
\* last_hash is already overwritten, the `?` returns before the increment.
AddBlockErr ==
    /\ opened
    /\ block_count < MaxLedgerBlocks
    /\ add_errors < MaxAddErrors
    /\ add_errors' = add_errors + 1
    /\ \E block \in LedgerBlocks :
        last_hash' = calculate_hash(block)
    /\ last_op' = "add_err"
    /\ UNCHANGED <<storage, block_count, appended, opened, table_created>>
    /\ UNCHANGED <<voteVars, nodeVars, chainVars, batcherVars,
                 clientVars, extVars>>

\* Blockchain::new on the path of the existing database (the ledger value
\* held before is dropped): Storage::open succeeds, block_count is
\* storage.len() and the last block is loaded from height block_count - 1.
\* With len() = 0 the u64 subtraction overflows: a build with overflow
\* checks panics, one without wraps to u64::MAX and Block::load fails.
Reopen ==
    LET n == StorageLen(table_created, storage) IN
    IF n = 0
    THEN /\ last_op' \in {"reopen_panic", "reopen_err"}
         /\ opened' = FALSE
         /\ UNCHANGED <<block_count, last_hash>>
         /\ UNCHANGED <<storage, appended, add_errors, table_created>>
         /\ UNCHANGED <<voteVars, nodeVars, chainVars, batcherVars,
                 clientVars, extVars>>
    ELSE LET last_block == get_block(table_created, storage, n - 1) IN
         /\ last_block.ok
         /\ block_count' = n
         /\ last_hash' = last_block.block.prev_block_hash
         /\ opened' = TRUE
         /\ last_op' = "reopen_ok"
         /\ UNCHANGED <<storage, appended, add_errors, table_created>>
         /\ UNCHANGED <<voteVars, nodeVars, chainVars, batcherVars,
                 clientVars, extVars>>

NextLedger == AddBlockOk \/ AddBlockErr \/ Reopen

SpecLedger == InitLedger /\ [][NextLedger]_vars

Last(seq) == seq[Len(seq)]

\* C9: a successful add_block stores the block under height = the old
\* block_count, increases block_count by exactly 1 and sets last_hash to
\* the block's hash; block_count always equals the number of stored keys.
C9_AppendEffect ==
    /\ [](block_count = Cardinality(DOMAIN storage))
    /\ [][appended' # appended =>
            /\ block_count' = block_count + 1
            /\ DOMAIN storage' = (DOMAIN storage) \cup {block_count}
            /\ storage'[block_count] = SerializeBlock(Last(appended'))
            /\ last_hash' = calculate_hash(Last(appended'))]_vars

C9_Witness == last_op = "add_ok" /\ block_count = 2 /\ Len(appended) = 2

\* C10: the ledger is append-only: get_block(h) returns the h-th appended
\* block for every h < len(), len() is the number of appends, and no step
\* changes a stored block, removes one or decreases len().
C10_AppendOnly ==
    /\ [](/\ len = Len(appended)
          /\ \A h \in 0..(len - 1) :
                /\ get_block(table_created, storage, h).ok
                /\ get_block(table_created, storage, h).block = appended[h + 1])
    /\ [][/\ block_count' >= block_count
          /\ \A h \in DOMAIN storage :
                h \in DOMAIN storage' /\ storage'[h] = storage[h]]_vars

C10_Witness ==
    /\ len = MaxLedgerBlocks
    /\ get_block(table_created, storage, 0).ok
    /\ get_block(table_created, storage, 0).block = appended[1]
    /\ appended[1].timestamp.nanos = 1

\* The outcomes of Blockchain::new on an existing database.
ReopenOutcomes == {"reopen_ok", "reopen_panic", "reopen_err"}

\* C11: reopening a ledger that holds n >= 1 blocks yields block_count = n
\* and last_hash = the hash of the block at height n-1, the values the
\* ledger had right after its last append.
C11_ReopenRestoresTip ==
    (last_op = "reopen_ok" /\ Len(appended) >= 1) =>
        /\ block_count = Len(appended)
        /\ last_hash = calculate_hash(Last(appended))

\* C12: opening a database that exists but holds no blocks succeeds and
\* yields a fresh ledger: block_count = 0, is_empty() and the zero last_hash.
C12_ReopenEmptyIsFresh ==
    (last_op \in ReopenOutcomes /\ appended = <<>>) =>
        /\ last_op = "reopen_ok"
        /\ opened
        /\ block_count = 0 /\ is_empty
        /\ last_hash = ZeroHash

\* C13: for every ledger state and every height h >= len(), get_block(h)
\* returns Err(WrongKey(h)); a freshly created ledger has len() = 0 and
\* get_block(0) fails with WrongKey(0).
C13_MissingHeightIsWrongKey ==
    opened =>
        \A h \in len..(MaxLedgerBlocks + 1) :
            /\ ~get_block(table_created, storage, h).ok
            /\ get_block(table_created, storage, h).err = <<"WrongKey", h>>

\* Timestamp limits that admit every block time tried.
LedgerLimits ==
    [lower |-> [secs |-> 0, nanos |-> 0], upper |-> [secs |-> 2, nanos |-> 0]]

\* C14: add_block accepts a block whose prev_block_hash differs from the
\* ledger's last_hash; block_count and last_hash advance as for a
\* well-linked block, and Block::verify of that block against the hash of
\* its predecessor (the zero hash at height 0) is false.
C14_UncheckedAppendFailsValidation ==
    [][(appended' # appended /\ Last(appended').prev_block_hash # last_hash) =>
          /\ block_count' = block_count + 1
          /\ last_hash' = calculate_hash(Last(appended'))
          /\ ~BlockVerify(Last(appended'), TipHash, LedgerLimits)]_vars

\* C38: when writing the block to storage fails, add_block returns the
\* error and leaves the cached state unchanged: block_count and last_hash
\* are what they were before the call.
C38_FailedAddLeavesStateUnchanged ==
    [][add_errors' # add_errors =>
          /\ last_op' = "add_err"
          /\ storage' = storage
          /\ block_count' = block_count
          /\ last_hash' = last_hash]_vars

----------------------------------------------------------------------------
(* Specification of the batcher: src/batcher/mod.rs                        *)

MaxSent == 6        \* items sent through the Sender
MaxBatchSize == 2   \* largest batch_size the batcher is built with

\* mpsc::channel(5): the capacity of the bounded channel.
ChannelCapacity == 5

BatcherNewOffByOne(batch_size_arg) ==
    [batch_size |-> batch_size_arg + 1, batch |-> <<>>, deadline_passed |-> FALSE]

\* Batcher::new: the fields of the new batcher; next_batch_time is
\* now + batch_time_interval, so the deadline has not passed.
BatcherNew(batch_size_arg) ==
    [batch_size |-> batch_size_arg, batch |-> <<>>, deadline_passed |-> FALSE]

flush_off_by_one(buf, size) ==
    LET n == IF Len(buf) < size THEN Len(buf) ELSE size IN
    [out |-> SubSeq(buf, 1, n - 1), rest |-> Drop(buf, n)]

\* Batcher::flush: drains the first min(len, batch_size) items of the buffer.
flush(buf, size) ==
    LET n == IF Len(buf) < size THEN Len(buf) ELSE size IN
    [out |-> SubSeq(buf, 1, n), rest |-> Drop(buf, n)]

BatchFullStrict(buf, size) == Len(buf) > size

\* The test at the top of the loop of wait_for_batch.
BatchFull(buf, size) == Len(buf) >= size

DeadlineKept(passed) == passed

\* flush sets next_batch_time to now + batch_time_interval: whether or not
\* the old deadline had passed, the new one has not.
DeadlineAfterFlush(passed) == FALSE

ChannelRecvIgnoresClosure(queue, is_closed) ==
    IF queue # <<>> THEN "Some" ELSE "Pending"

\* rx.recv(): an item while one is queued, None once the channel is closed
\* and drained, pending otherwise.
ChannelRecv(queue, is_closed) ==
    IF queue # <<>> THEN "Some"
    ELSE IF is_closed THEN "None" ELSE "Pending"

\* Batcher::new(batch_size, batch_time_interval) with batch_size > 0.
InitBatcher ==
    /\ size_arg \in 1..MaxBatchSize
    /\ batch_size = BatcherNew(size_arg).batch_size
    /\ batch = BatcherNew(size_arg).batch
    /\ deadline_passed = BatcherNew(size_arg).deadline_passed
    /\ chan = <<>> /\ closed = FALSE /\ sent = 0
    /\ returned_items = <<>> /\ last_batch = <<>> /\ last_ret = "none"
    /\ bpc = "idle" /\ call = NoCall
    /\ VoteIdle /\ NodeIdle /\ ChainIdle /\ LedgerIdle /\ ClientIdle
    /\ ExtIdle

\* tx.send(item).await completes: the channel is open and has room.
Send ==
    /\ ~closed
    /\ sent < MaxSent
    /\ Len(chan) < ChannelCapacity
    /\ sent' = sent + 1
    /\ chan' = Append(chan, sent + 1)
    /\ UNCHANGED <<batch_size, size_arg, batch, closed, deadline_passed,
                   returned_items, last_batch, last_ret, bpc, call>>
    /\ UNCHANGED <<voteVars, nodeVars, chainVars, ledgerVars, clientVars, extVars>>

\* The last Sender is dropped.
DropSenders ==
    /\ ~closed
    /\ closed' = TRUE
    /\ UNCHANGED <<batch_size, size_arg, batch, chan, deadline_passed, sent,
                   returned_items, last_batch, last_ret, bpc, call>>
    /\ UNCHANGED <<voteVars, nodeVars, chainVars, ledgerVars, clientVars, extVars>>

\* Time passes beyond next_batch_time.
Tick ==
    /\ ~deadline_passed
    /\ deadline_passed' = TRUE
    /\ call' = IF bpc = "idle" THEN call ELSE [call EXCEPT !.late = TRUE]
    /\ UNCHANGED <<batch_size, size_arg, batch, chan, closed, sent,
                   returned_items, last_batch, last_ret, bpc>>
    /\ UNCHANGED <<voteVars, nodeVars, chainVars, ledgerVars, clientVars, extVars>>

\* return self.flush(): the batch goes to the caller, the deadline is reset.
Return(kind) ==
    /\ last_batch' = flush(batch, batch_size).out
    /\ batch' = flush(batch, batch_size).rest
    /\ returned_items' = returned_items \o flush(batch, batch_size).out
    /\ deadline_passed' = DeadlineAfterFlush(deadline_passed)
    /\ last_ret' = kind
    /\ bpc' = "idle"
    /\ UNCHANGED <<batch_size, size_arg, chan, closed, sent, call>>
    /\ UNCHANGED <<voteVars, nodeVars, chainVars, ledgerVars, clientVars, extVars>>

\* The consumer calls wait_for_batch.
CallWaitForBatch ==
    /\ bpc = "idle"
    /\ bpc' = "loop"
    /\ call' = [pending |-> sent - Len(returned_items), closed |-> closed,
                late |-> deadline_passed]
    /\ UNCHANGED <<batch_size, size_arg, batch, chan, closed, deadline_passed,
                   sent, returned_items, last_batch, last_ret>>
    /\ UNCHANGED <<voteVars, nodeVars, chainVars, ledgerVars, clientVars, extVars>>

\* Top of the loop of wait_for_batch: a full buffer or a passed deadline
\* returns at once.
LoopReturn ==
    /\ bpc = "loop"
    /\ BatchFull(batch, batch_size) \/ deadline_passed
    /\ Return("wait")

\* Top of the loop, otherwise: enter select! with sleep(time_remaining).
LoopSelect ==
    /\ bpc = "loop"
    /\ ~(BatchFull(batch, batch_size) \/ deadline_passed)
    /\ bpc' = "select"
    /\ UNCHANGED <<batch_size, size_arg, batch, chan, closed, deadline_passed,
                   sent, returned_items, last_batch, last_ret, call>>
    /\ UNCHANGED <<voteVars, nodeVars, chainVars, ledgerVars, clientVars, extVars>>

\* select!: the sleep branch completes.
SelectSleep ==
    /\ bpc = "select"
    /\ deadline_passed
    /\ Return("wait")

\* select!: rx.recv() yields Some(item); push it and loop.  (The branch on
\* batch_ready_notify never completes: nothing calls notify on it.)
SelectRecvSome ==
    /\ bpc = "select"
    /\ ChannelRecv(chan, closed) = "Some"
    /\ batch' = Append(batch, Head(chan))
    /\ chan' = Tail(chan)
    /\ bpc' = "loop"
    /\ UNCHANGED <<batch_size, size_arg, closed, deadline_passed, sent,
                   returned_items, last_batch, last_ret, call>>
    /\ UNCHANGED <<voteVars, nodeVars, chainVars, ledgerVars, clientVars, extVars>>

\* select!: rx.recv() yields None, the channel is closed.
SelectRecvNone ==
    /\ bpc = "select"
    /\ ChannelRecv(chan, closed) = "None"
    /\ Return("wait")

\* The consumer calls flush() on its own.
Flush ==
    /\ bpc = "idle"
    /\ Return("flush")

NextBatcher ==
    \/ Send \/ DropSenders \/ Tick \/ CallWaitForBatch \/ LoopReturn
    \/ LoopSelect \/ SelectSleep \/ SelectRecvSome \/ SelectRecvNone \/ Flush

SpecBatcher == InitBatcher /\ [][NextBatcher]_vars

\* The consumer keeps calling wait_for_batch and every call runs on; a
\* select! that is ready to receive again and again does receive; time goes
\* on; a send completes when the channel has room.
Consumer ==
    \/ CallWaitForBatch \/ LoopReturn \/ LoopSelect
    \/ SelectSleep \/ SelectRecvSome \/ SelectRecvNone

SpecBatcherLive ==
    /\ InitBatcher /\ [][NextBatcher]_vars
    /\ WF_vars(Consumer) /\ SF_vars(SelectRecvSome)
    /\ WF_vars(Tick) /\ WF_vars(Send)

\* The items from + 1 .. from + k in send order.
Items(from, k) == [i \in 1..k |-> from + i]

Min(a, b) == IF a < b THEN a ELSE b

\* A wait_for_batch call has returned and no other call was made since.
WaitReturned == last_ret = "wait" /\ bpc = "idle"

\* The items that had been returned before the batch returned last.
ReturnedBefore == Len(returned_items) - Len(last_batch)

C16_BatchAtMostBatchSize == Len(last_batch) <= size_arg

C16_Witness ==
    /\ WaitReturned /\ call.pending > size_arg
    /\ Len(last_batch) = size_arg /\ chan # <<>>

\* C17: whenever at least batch_size sent items have not yet been returned
\* when wait_for_batch is called, the call returns exactly the oldest
\* batch_size of them.
C17_FullBatchWhenEnoughPending ==
    (WaitReturned /\ call.pending >= batch_size) =>
        last_batch = Items(ReturnedBefore, batch_size)

WaitReturns == bpc # "idle" /\ bpc' = "idle"
FlushReturns ==
    /\ bpc = "idle" /\ bpc' = "idle"
    /\ sent' = sent /\ closed' = closed
    /\ ~(~deadline_passed /\ deadline_passed')

\* C35: a wait_for_batch call that gets fewer than batch_size items while
\* the channel is open returns at the deadline, not before it, with exactly
\* the items it has received so far, possibly none; every return of
\* wait_for_batch or flush resets the deadline to the current time +
\* batch_interval.
C35_ReturnsAtDeadlineAndResets ==
    [][/\ (WaitReturns /\ Len(last_batch') < batch_size
                /\ ChannelRecv(chan, closed) # "None") =>
            /\ deadline_passed
            /\ last_batch' = batch
            /\ batch' = <<>>
       /\ (WaitReturns \/ FlushReturns) => ~deadline_passed']_vars

\* The deadline passed during a call that had received one item of an open
\* channel and needed two.
C35_Witness ==
    /\ WaitReturned /\ call.late /\ ~closed
    /\ batch_size = 2 /\ Len(last_batch) = 1
    /\ ~deadline_passed

\* C36: if the consumer calls wait_for_batch again and again, every item
\* that was sent is eventually returned in some batch and every pending send
\* on the bounded channel eventually completes, also when the time between
\* two consecutive calls is longer than batch_interval.
C36_EverySentItemReturned ==
    /\ \A k \in 1..MaxSent : (sent >= k) ~> (Len(returned_items) >= k)
    /\ (Len(chan) = ChannelCapacity) ~> (Len(chan) < ChannelCapacity)

\* C37: the buffer never holds more than batch_size items and is empty
\* whenever wait_for_batch or flush has returned: every sent item not yet
\* returned sits in the channel, so at most ChannelCapacity sent items are
\* pending between two calls, and flush called on its own returns no item.
C37_BufferEmptyBetweenCalls ==
    /\ Len(batch) <= batch_size
    /\ bpc = "idle" =>
        /\ batch = <<>>
        /\ sent - Len(returned_items) = Len(chan)
        /\ sent - Len(returned_items) <= ChannelCapacity
    /\ last_ret = "flush" => last_batch = <<>>

\* flush was called on its own while the channel was full.
C37_Witness ==
    /\ bpc = "idle" /\ last_ret = "flush" /\ last_batch = <<>>
    /\ Len(chan) = ChannelCapacity /\ batch = <<>>

----------------------------------------------------------------------------
(* Specification of the voter client's vote submission:                    *)
(* subcrates/client/src/candidate_selection.rs, fetch.rs, states/          *)

MaxSendVotes == 2   \* send_vote calls (clicks on "Confirm Candidate")

\* The election the user added, named by the address its config came from,
\* and the node addresses that config lists.
ClientBlockchain == "node1"
ClientNodes == {"node1", "node2"}
ClientCandidates == {0, 1}
ClientNow == 1

\* The HTTP statuses a node answers a submission with.
Statuses == {200, 400}

\* derive_key: PBKDF2-HMAC-SHA256 of the password under the salt
\* SHA-256(username || uuid); the key stands for the three inputs.
derive_key_without_password(username, password, uuid) == <<username, 0, uuid>>

derive_key(username, password, uuid) == <<username, password, uuid>>

\* Encryption::new: a key derived under the freshly drawn uuid.
EncryptionNew(username, password, uuid) ==
    [key |-> derive_key(username, password, uuid), uuid |-> uuid]

\* MetaData::get_uuid, MetaData::get_nonce of metadata = uuid || nonce.
get_uuid(metadata) == metadata[1]
get_nonce(metadata) == metadata[2]

\* Encryption::load: the key derived under the uuid kept in the metadata.
EncryptionLoad(username, password, metadata) ==
    [key |-> derive_key(username, password, get_uuid(metadata)),
     uuid |-> get_uuid(metadata)]

\* Encryption::encrypt: ChaCha20-Poly1305 seal in place under the drawn
\* nonce with the metadata as associated data; returns the metadata.
encrypt(encryption, to_encrypt, nonce) ==
    LET metadata == <<encryption.uuid, nonce>> IN
    [metadata |-> metadata,
     bytes |-> <<encryption.key, metadata>> \o to_encrypt]

\* Encryption::decrypt: opens only under the sealing key, nonce and
\* associated data; Error::Decryption otherwise.
decrypt(encryption, to_decrypt, metadata) ==
    IF /\ Len(to_decrypt) >= 2
       /\ to_decrypt[1] = encryption.key
       /\ to_decrypt[2] = metadata
    THEN [ok |-> TRUE, plaintext |-> Drop(to_decrypt, 2), error |-> "none"]
    ELSE [ok |-> FALSE, plaintext |-> <<>>, error |-> "Decryption"]

\* Storage::encrypt: the serialized value sealed in place, with its metadata.
StorageEncrypt(encryption, plaintext, nonce) ==
    LET e == encrypt(encryption, plaintext, nonce) IN
    [metadata |-> e.metadata, encrypted_bytes |-> e.bytes]

\* Storage::decrypt: fails unless the key is the one that sealed the record.
StorageDecrypt(record, encryption) ==
    LET d == decrypt(encryption, record.encrypted_bytes, record.metadata) IN
    [ok |-> d.ok, plaintext |-> d.plaintext]

\* The logged-in user: name, encryption key, the signing key of the election.
ClientUser ==
    [username |-> "voter", encryption |-> EncryptionNew("voter", 7, 1),
     signer |-> 1]

\* storage_key of Signature, AccessTokens, Candidate:
\* "{username}/{blockchain}/{record}".
storage_key(username, blockchain, record) == <<username, blockchain, record>>

\* Storage::save
LocalSave(store, key, record) ==
    [k \in (DOMAIN store) \cup {key} |-> IF k = key THEN record ELSE store[k]]

\* serde_json of the AccessTokens vector: null or the token bytes per entry.
SerializeTokens(tokens) ==
    Concat([i \in 1..Len(tokens) |->
        IF tokens[i].some THEN <<1, Len(tokens[i].v)>> \o tokens[i].v ELSE <<0>>])

\* Signature::load(user, blockchain)
SignatureLoad(store, user, blockchain) ==
    LET key == storage_key(user.username, blockchain, "signature") IN
    IF key \notin DOMAIN store THEN [ok |-> FALSE, signer |-> 0]
    ELSE LET d == StorageDecrypt(store[key], user.encryption) IN
         IF d.ok THEN [ok |-> TRUE, signer |-> d.plaintext[1]]
         ELSE [ok |-> FALSE, signer |-> 0]

prepare_skipping_missing(tokens) ==
    [ok |-> TRUE,
     tokens |-> SelectSeq([i \in 1..Len(tokens) |-> tokens[i].v],
                          LAMBDA t : t # <<>>)]

\* AccessTokens::prepare: every token, or an error at the first None.
prepare(tokens) ==
    IF \E i \in 1..Len(tokens) : ~tokens[i].some
    THEN [ok |-> FALSE, tokens |-> <<>>]
    ELSE [ok |-> TRUE, tokens |-> [i \in 1..Len(tokens) |-> tokens[i].v]]

\* AccessTokens::is_complete
is_complete(tokens) ==
    tokens # <<>> /\ \A i \in 1..Len(tokens) : tokens[i].some

submit_vote_any_status(response_status) == "Ok"

\* fetch::submit_vote on a received response: every status but 200 bails.
submit_vote(response_status) ==
    IF response_status # 200 THEN "Err" ELSE "Ok"

\* The token vectors the Validation view can have produced for the user:
\* per authority, nothing yet or the token unblinded for the user's key.
TokenVectors ==
    UNION {{t \in [1..k -> {NoneToken} \cup
                    {[some |-> TRUE,
                      v |-> honest_access_token(a, get_public_key(ClientUser.signer),
                                                1, 1).sig] : a \in 1..k}] :
                \A i \in 1..k : t[i].some =>
                    t[i].v = honest_access_token(i, get_public_key(ClientUser.signer),
                                                 1, 1).sig} :
           k \in 1..NAuthorities}

\* The client after add_blockchain and validation: signature and access
\* tokens stored, no candidate recorded, nothing selected.
InitClient ==
    /\ token_vec \in TokenVectors
    /\ sel_candidate = NoneId /\ sel_node = NoneNode
    /\ local_storage =
        LocalSave(
            LocalSave(NoRecords,
                storage_key(ClientUser.username, ClientBlockchain, "signature"),
                StorageEncrypt(ClientUser.encryption, <<ClientUser.signer>>,
                               1)),
            storage_key(ClientUser.username, ClientBlockchain, "access_tokens"),
            StorageEncrypt(ClientUser.encryption, SerializeTokens(token_vec),
                           1))
    /\ voted = NoneId /\ client_error = NoError
    /\ requests = <<>> /\ last_send = [n |-> 0, result |-> "none"]
    /\ token_op = NoTokenOp
    /\ VoteIdle /\ NodeIdle /\ ChainIdle /\ LedgerIdle /\ BatcherIdle
    /\ ExtIdle

\* The radio button of a candidate is chosen.
SelectCandidate ==
    /\ \E c \in ClientCandidates :
        /\ sel_candidate # [some |-> TRUE, v |-> c]
        /\ sel_candidate' = [some |-> TRUE, v |-> c]
    /\ UNCHANGED <<token_vec, sel_node, local_storage, voted, client_error,
                   requests, last_send>>
    /\ UNCHANGED token_op
    /\ UNCHANGED <<voteVars, nodeVars, chainVars, ledgerVars, batcherVars,
                 extVars>>

\* A node is chosen in the node_select list.
SelectNode ==
    /\ \E n \in ClientNodes :
        /\ sel_node # [some |-> TRUE, v |-> n]
        /\ sel_node' = [some |-> TRUE, v |-> n]
    /\ UNCHANGED <<token_vec, sel_candidate, local_storage, voted,
                   client_error, requests, last_send>>
    /\ UNCHANGED token_op
    /\ UNCHANGED <<voteVars, nodeVars, chainVars, ledgerVars, batcherVars,
                 extVars>>

\* What send_vote does before it spawns the submission: the checks in
\* source order and the vote built by Vote::new.
SendVoteResult ==
    LET signature == SignatureLoad(local_storage, ClientUser, ClientBlockchain)
        tokens == prepare(token_vec)
    IN IF ~sel_candidate.some
       THEN [ok |-> FALSE, err |-> "Candidate ID is not selected", vote |-> NoVote]
       ELSE IF ~sel_node.some
       THEN [ok |-> FALSE, err |-> "Blockchain node not selected", vote |-> NoVote]
       ELSE IF ~signature.ok
       THEN [ok |-> FALSE, err |-> "User or password are incorrect", vote |-> NoVote]
       ELSE IF ~tokens.ok
       THEN [ok |-> FALSE, err |-> "An access token is missing", vote |-> NoVote]
       ELSE [ok |-> TRUE, err |-> "Ok",
             vote |-> VoteNew(signature.signer, sel_candidate.v, ClientNow,
                              tokens.tokens)]

\* A click on "Confirm Candidate": send_vote, and the caller's set_error
\* when it fails.
SendVote ==
    /\ last_send.n < MaxSendVotes
    /\ last_send' = [n |-> last_send.n + 1, result |-> SendVoteResult.err]
    /\ IF SendVoteResult.ok
       THEN /\ requests' = Append(requests,
                [node |-> sel_node.v, candidate |-> sel_candidate.v,
                 vote |-> SendVoteResult.vote, phase |-> "pending",
                 response |-> 0])
            /\ UNCHANGED client_error
       ELSE /\ client_error' = <<"Failed to submit vote: ", SendVoteResult.err, 0>>
            /\ UNCHANGED requests
    /\ UNCHANGED <<token_vec, sel_candidate, sel_node, local_storage, voted>>
    /\ UNCHANGED token_op
    /\ UNCHANGED <<voteVars, nodeVars, chainVars, ledgerVars, batcherVars,
                 extVars>>

\* The node answers submission i; the response is on its way.
NodeAnswers ==
    /\ \E i \in DOMAIN requests, status \in Statuses :
        /\ requests[i].phase = "pending"
        /\ requests[i].response = 0
        /\ requests' = [requests EXCEPT ![i].response = status]
    /\ UNCHANGED <<token_vec, sel_candidate, sel_node, local_storage, voted,
                   client_error, last_send>>
    /\ UNCHANGED token_op
    /\ UNCHANGED <<voteVars, nodeVars, chainVars, ledgerVars, batcherVars,
                 extVars>>

\* The spawned task receives the response of submission i: on status 200
\* Candidate::choose(candidate_id, user, node) saves the candidate and
\* set_candidate is called, otherwise set_error.
ResponseReceived ==
    /\ \E i \in DOMAIN requests :
        /\ requests[i].phase = "pending"
        /\ requests[i].response # 0
        /\ IF submit_vote(requests[i].response) = "Ok"
           THEN /\ local_storage' = LocalSave(local_storage,
                        storage_key(ClientUser.username, requests[i].node,
                                    "candidate"),
                        StorageEncrypt(ClientUser.encryption,
                                       Digits(requests[i].candidate),
                                       1))
                /\ voted' = [some |-> TRUE, v |-> requests[i].candidate]
                /\ requests' = [requests EXCEPT ![i].phase = "accepted"]
                /\ UNCHANGED client_error
           ELSE /\ client_error' = <<"Failed to submit vote: ", "Error code ",
                                     requests[i].response>>
                /\ requests' = [requests EXCEPT ![i].phase = "failed"]
                /\ UNCHANGED <<local_storage, voted>>
    /\ UNCHANGED <<token_vec, sel_candidate, sel_node, last_send>>
    /\ UNCHANGED token_op
    /\ UNCHANGED <<voteVars, nodeVars, chainVars, ledgerVars, batcherVars,
                 extVars>>

\* The request of submission i fails in the network, or the 5 s timeout
\* future completes first; the node may or may not have answered.
RequestFails ==
    /\ \E i \in DOMAIN requests,
          e \in {"Request failed", "Request timed out"} :
        /\ requests[i].phase = "pending"
        /\ client_error' = <<"Failed to submit vote: ", e, 0>>
        /\ requests' = [requests EXCEPT ![i].phase = "failed"]
    /\ UNCHANGED <<token_vec, sel_candidate, sel_node, local_storage, voted,
                   last_send>>
    /\ UNCHANGED token_op
    /\ UNCHANGED <<voteVars, nodeVars, chainVars, ledgerVars, batcherVars,
                 extVars>>

NextClient ==
    \/ SelectCandidate \/ SelectNode \/ SendVote
    \/ NodeAnswers \/ ResponseReceived \/ RequestFails

SpecClient == InitClient /\ [][NextClient]_vars

\* Some entry of the access-token vector is None.
TokenMissing == \E i \in 1..Len(token_vec) : ~token_vec[i].some

\* The step is a send_vote call.
SendVoteStep == last_send'.n # last_send.n

\* C19: if any entry of the access-token vector is None, send_vote fails
\* with 'An access token is missing', sends no request and persists nothing.
C19_MissingTokenMessage ==
    [][(SendVoteStep /\ TokenMissing) =>
          /\ last_send'.result = "An access token is missing"
          /\ requests' = requests
          /\ local_storage' = local_storage]_vars

\* C19 amended: if any entry of the access-token vector is None, send_vote
\* fails, sends no request and persists nothing; the error is 'An access
\* token is missing' when a candidate and a node are selected, and the
\* message of the earlier check otherwise.
C19_MissingTokenNoSubmission ==
    [][(SendVoteStep /\ TokenMissing) =>
          /\ last_send'.result # "Ok"
          /\ requests' = requests
          /\ local_storage' = local_storage
          /\ voted' = voted
          /\ (sel_candidate.some /\ sel_node.some) =>
                last_send'.result = "An access token is missing"
          /\ ~sel_candidate.some =>
                last_send'.result = "Candidate ID is not selected"
          /\ (sel_candidate.some /\ ~sel_node.some) =>
                last_send'.result = "Blockchain node not selected"]_vars

C19_Witness ==
    /\ TokenMissing /\ sel_candidate.some /\ sel_node.some
    /\ last_send.n = MaxSendVotes
    /\ last_send.result = "An access token is missing"
    /\ requests = <<>>

\* The voter has voted: the candidate signal is set.
Voted == voted.some

\* C20: the candidate is persisted and the client becomes Voted only in
\* the step that receives status 200 for a submission; a submission that
\* ends in a network error, a timeout or another status writes no record
\* and leaves the candidate signal alone.
C20_PersistOnlyAfter200 ==
    /\ [](Voted => \E i \in DOMAIN requests :
                    /\ requests[i].phase = "accepted"
                    /\ requests[i].response = 200
                    /\ requests[i].candidate = voted.v)
    /\ [][(local_storage' # local_storage \/ voted' # voted) =>
            \E i \in DOMAIN requests :
                /\ requests[i].phase = "pending" /\ requests[i].response = 200
                /\ requests'[i].phase = "accepted"
                /\ \A k \in DOMAIN local_storage :
                    k[3] # "candidate" =>
                        k \in DOMAIN local_storage' /\ local_storage'[k] = local_storage[k]]_vars
    /\ [][(\E i \in DOMAIN requests :
                requests[i].phase = "pending" /\ requests'[i].phase = "failed") =>
            /\ local_storage' = local_storage
            /\ voted' = voted]_vars

C20_Witness ==
    /\ Voted
    /\ \E i \in DOMAIN requests : requests[i].phase = "failed"
    /\ \E k \in DOMAIN local_storage : k[3] = "candidate"

\* Candidate::load(user, blockchain): None when no record is stored.
CandidateLoad(store, user, blockchain) ==
    LET key == storage_key(user.username, blockchain, "candidate") IN
    IF key \notin DOMAIN store THEN [ok |-> TRUE, candidate |-> NoneId]
    ELSE LET d == StorageDecrypt(store[key], user.encryption) IN
         IF d.ok
         THEN [ok |-> TRUE,
               candidate |-> [some |-> TRUE, v |-> FromDigits(d.plaintext)]]
         ELSE [ok |-> FALSE, candidate |-> NoneId]

\* C21: after a vote cast for blockchain b was acknowledged by a node, the
\* candidate record is stored under b's own candidate key, so that
\* Candidate::load(user, b) returns a recorded candidate, whichever node of
\* the election the vote was sent to.
C21_CandidateUnderBlockchainKey ==
    (\E i \in DOMAIN requests : requests[i].phase = "accepted") =>
        /\ storage_key(ClientUser.username, ClientBlockchain, "candidate")
                \in DOMAIN local_storage
        /\ CandidateLoad(local_storage, ClientUser, ClientBlockchain).candidate.some
        /\ \E i \in DOMAIN requests :
            /\ requests[i].phase = "accepted"
            /\ CandidateLoad(local_storage, ClientUser, ClientBlockchain).candidate.v
                    = requests[i].candidate

\* C39: the client and the node agree on whether the voter has voted: a
\* submission the node has answered with 200 is never reported to the voter
\* as failed, and once its task has ended the candidate is recorded and the
\* client is Voted.
C39_ClientAgreesWithNode ==
    \A i \in DOMAIN requests :
        requests[i].response = 200 =>
            /\ requests[i].phase # "failed"
            /\ requests[i].phase # "pending" => Voted

----------------------------------------------------------------------------
(* Specification of the client state machine:                              *)
(* subcrates/client/src/state.rs                                           *)

NPasswords == 2   \* passwords tried at registration and login
NUuids == 1       \* uuids Encryption::new may draw
NNonces == 1      \* nonces Encryption::encrypt may draw

Passwords == 1..NPasswords
Uuids == 1..NUuids
Nonces == 1..NNonces
Usernames == {"voter", "other"}

Some(value) == [some |-> TRUE, v |-> value]

\* The KeyStore built by State::save from the signals.
KeyStoreOf(s) ==
    [signer_sk |-> s.signer,
     authority_key |-> s.authority_key,
     unblinding_secret |->
        IF s.unblinder.some THEN Some(s.unblinder.v.secret) ELSE NoneToken,
     access_token |-> s.access_token,
     candidate |-> s.candidate]

\* The serialized KeyStore: its five optional fields in declaration order.
SerializeKeyStore(ks) ==
    <<ks.signer_sk, ks.authority_key, ks.unblinding_secret, ks.access_token,
      ks.candidate>>

DeserializeKeyStore(bytes) ==
    [signer_sk |-> bytes[1], authority_key |-> bytes[2],
     unblinding_secret |-> bytes[3], access_token |-> bytes[4],
     candidate |-> bytes[5]]

\* State::save: the KeyStore of the signals, encrypted and stored; an error
\* when no encryption is held.
StateSave(s, nonce) ==
    IF s.encryption.some
    THEN [ok |-> TRUE,
          stored |-> Some(StorageEncrypt(s.encryption.v,
                                         SerializeKeyStore(KeyStoreOf(s)),
                                         nonce))]
    ELSE [ok |-> FALSE, stored |-> NoStorage]

\* State::get_status
get_status(s) ==
    IF s.candidate.some THEN "Voted"
    ELSE IF s.access_token.some THEN "Validated"
    ELSE IF s.signer.some THEN "LoggedIn"
    ELSE "LoggedOut"

\* The candidate strings typed by the user: a number, or text that does not
\* parse as one.
CandidateTexts ==
    {[ok |-> TRUE, v |-> c] : c \in 0..(MaxCandidate - 1)}
        \cup {[ok |-> FALSE, v |-> 0]}

\* State::vote against the signals s: the outcome, the signals afterwards
\* and the stored key store afterwards.
StateVote(s, stored, text, nonce) ==
    IF ~text.ok THEN [ok |-> FALSE, s |-> s, stored |-> stored]
    ELSE IF ~(s.signer.some /\ s.access_token.some)
    THEN [ok |-> FALSE, s |-> s, stored |-> stored]
    ELSE LET s1 == [s EXCEPT !.candidate = Some(text.v)]
             sv == StateSave(s1, nonce)
         IN [ok |-> sv.ok, s |-> s1,
             stored |-> IF sv.ok THEN sv.stored ELSE stored]

\* The blind signatures the user may paste: what some authority answered to
\* some blinded key, or empty bytes.
BlindSignatures ==
    {bling_sign(a1, blind(authority_public_key(a2), get_public_key(sk), 1,
                          salt).blind_msg) :
        a1 \in AuthorityKeys, a2 \in AuthorityKeys, sk \in SignerKeys,
        salt \in Salts} \cup {<<>>}

InitState ==
    /\ st = StateNew /\ key_store = NoStorage /\ st_op = NoStateOp
    /\ CoreIdle /\ UserIdle /\ CryptoIdle /\ AuthorityIdle

\* State::new: the page is loaded again.
NewState ==
    /\ st' = StateNew
    /\ st_op' = [op |-> "new", status |-> get_status(st), ok |-> TRUE]
    /\ UNCHANGED key_store
    /\ UNCHANGED <<coreVars, userVars, cryptoVars, authorityVars>>

\* State::register_user
RegisterUser ==
    \E username \in Usernames, password \in Passwords, uuid \in Uuids,
       sk \in SignerKeys, nonce \in Nonces :
        LET encryption == EncryptionNew(username, password, uuid)
            ks == [signer_sk |-> Some(sk), authority_key |-> NoneToken,
                   unblinding_secret |-> NoneToken, access_token |-> NoneToken,
                   candidate |-> NoneId]
        IN /\ key_store' = Some(StorageEncrypt(encryption,
                                               SerializeKeyStore(ks), nonce))
           /\ st' = [st EXCEPT !.encryption = Some(encryption),
                               !.signer = Some(sk)]
           /\ st_op' = [op |-> "register_user", status |-> get_status(st),
                        ok |-> TRUE]
           /\ UNCHANGED <<coreVars, userVars, cryptoVars, authorityVars>>

\* State::login_user
LoginUser ==
    \E username \in Usernames, password \in Passwords :
        /\ IF ~key_store.some
           THEN /\ st_op' = [op |-> "login_user", status |-> get_status(st),
                             ok |-> FALSE]
                /\ UNCHANGED st
           ELSE LET encryption == EncryptionLoad(username, password,
                                                 key_store.v.metadata)
                    d == StorageDecrypt(key_store.v, encryption)
                    ks == DeserializeKeyStore(d.plaintext)
                IN IF ~d.ok
                   THEN /\ st_op' = [op |-> "login_user",
                                     status |-> get_status(st), ok |-> FALSE]
                        /\ UNCHANGED st
                   ELSE /\ st' =
                            [encryption |-> Some(encryption),
                             signer |-> ks.signer_sk,
                             authority_key |-> ks.authority_key,
                             blinded_pk |-> NoneToken,
                             unblinder |->
                                IF ks.authority_key.some
                                   /\ ks.unblinding_secret.some
                                THEN Some([pk |-> ks.authority_key.v,
                                           secret |-> ks.unblinding_secret.v])
                                ELSE NoneUnblinder,
                             access_token |-> ks.access_token,
                             candidate |-> ks.candidate]
                        /\ st_op' = [op |-> "login_user",
                                     status |-> get_status(st), ok |-> TRUE]
        /\ UNCHANGED key_store
        /\ UNCHANGED <<coreVars, userVars, cryptoVars, authorityVars>>

\* State::blind
StateBlind ==
    \E ask \in AuthorityKeys, salt \in Salts, nonce \in Nonces :
        /\ IF ~st.signer.some
           THEN /\ st_op' = [op |-> "blind", status |-> get_status(st),
                             ok |-> FALSE]
                /\ UNCHANGED <<st, key_store>>
           ELSE LET pk == authority_public_key(ask)
                    b == blind(pk, get_public_key(st.signer.v), 1, salt)
                    s1 == [st EXCEPT !.authority_key = Some(pk),
                                     !.unblinder = Some([pk |-> pk,
                                                         secret |-> b.secret]),
                                     !.blinded_pk = Some(b.blind_msg)]
                    sv == StateSave(s1, nonce)
                IN /\ st' = s1
                   /\ key_store' = IF sv.ok THEN sv.stored ELSE key_store
                   /\ st_op' = [op |-> "blind", status |-> get_status(st),
                                ok |-> sv.ok]
        /\ UNCHANGED <<coreVars, userVars, cryptoVars, authorityVars>>

\* State::unblind
StateUnblind ==
    \E blind_signature \in BlindSignatures, nonce \in Nonces :
        /\ IF ~(st.signer.some /\ st.unblinder.some)
           THEN /\ st_op' = [op |-> "unblind", status |-> get_status(st),
                             ok |-> FALSE]
                /\ UNCHANGED <<st, key_store>>
           ELSE LET u == unblind_signature(st.unblinder.v.pk,
                                           st.unblinder.v.secret,
                                           blind_signature,
                                           get_public_key(st.signer.v))
                    s1 == [st EXCEPT !.access_token = Some(u.sig)]
                    sv == StateSave(s1, nonce)
                IN IF ~u.ok
                   THEN /\ st_op' = [op |-> "unblind",
                                     status |-> get_status(st), ok |-> FALSE]
                        /\ UNCHANGED <<st, key_store>>
                   ELSE /\ st' = s1
                        /\ key_store' = IF sv.ok THEN sv.stored ELSE key_store
                        /\ st_op' = [op |-> "unblind",
                                     status |-> get_status(st), ok |-> sv.ok]
        /\ UNCHANGED <<coreVars, userVars, cryptoVars, authorityVars>>

\* State::vote
StateVoteCall ==
    \E text \in CandidateTexts, nonce \in Nonces :
        LET r == StateVote(st, key_store, text, nonce) IN
        /\ st' = r.s
        /\ key_store' = r.stored
        /\ st_op' = [op |-> "vote", status |-> get_status(st), ok |-> r.ok]
        /\ UNCHANGED <<coreVars, userVars, cryptoVars, authorityVars>>

NextState ==
    \/ NewState
    \/ RegisterUser
    \/ LoginUser
    \/ StateBlind
    \/ StateUnblind
    \/ StateVoteCall

SpecState == InitState /\ [][NextState]_vars

\* C22: State::vote succeeds only when get_status() is Validated; called in
\* any other status it returns an error and leaves the signals and the stored
\* key store as they were.
C22_VoteOnlyWhenValidated ==
    [][st_op'.op = "vote" =>
        /\ st_op'.ok => st_op'.status = "Validated"
        /\ st_op'.status # "Validated" =>
            ~st_op'.ok /\ st' = st /\ key_store' = key_store]_vars

----------------------------------------------------------------------------
(* Specification of the user profile: subcrates/client/src/states/user.rs, *)
(* states/blockchain.rs and the per-blockchain records they create         *)

MaxUserCalls == 5   \* calls made on the user profile

\* The blockchain addresses the user may add, and the election config
\* fetched from them (two authorities).
UserAddrs == {"node1", "node2"}
UserElectionConfig ==
    [authorities |-> <<authority_public_key(1), authority_public_key(2)>>,
     nodes |-> <<"node1", "node2">>, candidates |-> <<0, 1>>]

\* The candidate voted for.
UserCandidates == {0}

\* The step of add_blockchain that returns an error, if any: encrypting the
\* list, Signature::new, Validators::new, AccessTokens::new, Config::save.
FailPoints ==
    {"none", "list", "signature", "validators", "access_tokens", "config"}

\* The records created by create_in_storage, and all per-blockchain records.
BlockchainRecords == {"signature", "validators", "access_tokens", "config"}
PerBlockchainRecords == BlockchainRecords \cup {"candidate"}

\* The list of blockchains is stored under the username itself.
user_key(username) == <<username>>

\* Storage::delete
LocalDelete(store, key) == [k \in (DOMAIN store) \ {key} |-> store[k]]

\* serde_json of UserBlockchains and back.
SerializeBlockchains(blockchains) == <<Len(blockchains)>> \o blockchains
DeserializeBlockchains(bytes) == Drop(bytes, 1)

\* serde_json of Config.
SerializeConfig(c) == <<c.authorities, c.nodes, c.candidates>>

\* serde_json of ValidatorsStorage: blinded key and unblinding secret per
\* authority of the config.
SerializeValidators(c, signer_pk, salt) ==
    [i \in 1..Len(c.authorities) |->
        LET b == blind(c.authorities[i], signer_pk, 1, salt)
        IN <<b.blind_msg, b.secret>>]

UserRegisterOverwrites(store, username, password, uuid, nonce) ==
    LET encryption == EncryptionNew("", password, uuid) IN
    [ok |-> TRUE, error |-> "",
     store |-> LocalSave(store, user_key(username),
                         StorageEncrypt(encryption,
                                        SerializeBlockchains(<<>>), nonce)),
     user |-> [username |-> username, encryption |-> encryption,
               blockchains |-> <<>>]]

\* User::register (the key is derived from the password alone)
UserRegister(store, username, password, uuid, nonce) ==
    IF user_key(username) \in DOMAIN store
    THEN [ok |-> FALSE, error |-> "User already exists", store |-> store,
          user |-> NoneUser.v]
    ELSE LET encryption == EncryptionNew("", password, uuid) IN
         [ok |-> TRUE, error |-> "",
          store |-> LocalSave(store, user_key(username),
                              StorageEncrypt(encryption,
                                             SerializeBlockchains(<<>>),
                                             nonce)),
          user |-> [username |-> username, encryption |-> encryption,
                    blockchains |-> <<>>]]

UserLoginFixedUuid(store, username, password) ==
    IF user_key(username) \notin DOMAIN store
    THEN [ok |-> FALSE, error |-> "User or password are incorrect",
          user |-> NoneUser.v]
    ELSE LET stored == store[user_key(username)]
             encryption == EncryptionLoad("", password, <<0, 0>>)
             d == StorageDecrypt(stored, encryption)
         IN IF ~d.ok
            THEN [ok |-> FALSE, error |-> "Decryption", user |-> NoneUser.v]
            ELSE [ok |-> TRUE, error |-> "",
                  user |-> [username |-> username, encryption |-> encryption,
                            blockchains |->
                                DeserializeBlockchains(d.plaintext)]]

\* User::login
UserLogin(store, username, password) ==
    IF user_key(username) \notin DOMAIN store
    THEN [ok |-> FALSE, error |-> "User or password are incorrect",
          user |-> NoneUser.v]
    ELSE LET stored == store[user_key(username)]
             encryption == EncryptionLoad("", password, stored.metadata)
             d == StorageDecrypt(stored, encryption)
         IN IF ~d.ok
            THEN [ok |-> FALSE, error |-> "Decryption", user |-> NoneUser.v]
            ELSE [ok |-> TRUE, error |-> "",
                  user |-> [username |-> username, encryption |-> encryption,
                            blockchains |->
                                DeserializeBlockchains(d.plaintext)]]

\* blockchain::delete_from_storage: Signature, Config, Validators and
\* AccessTokens are deleted.
delete_from_storage(store, username, blockchain_addr) ==
    [k \in (DOMAIN store)
            \ {storage_key(username, blockchain_addr, r) :
                    r \in BlockchainRecords} |-> store[k]]

create_in_storage_second_key(store, u, blockchain_addr, blockchain_config, fail_at, sk, salt, nonce) ==
    LET s1 == LocalSave(store,
                  storage_key(u.username, blockchain_addr, "signature"),
                  StorageEncrypt(u.encryption, <<sk>>, nonce))
        s2 == LocalSave(s1,
                  storage_key(u.username, blockchain_addr, "validators"),
                  StorageEncrypt(u.encryption,
                      SerializeValidators(blockchain_config,
                                          get_public_key(sk + 1), salt), nonce))
        s3 == LocalSave(s2,
                  storage_key(u.username, blockchain_addr, "access_tokens"),
                  StorageEncrypt(u.encryption,
                      SerializeTokens([i \in 1..Len(blockchain_config.authorities)
                                          |-> NoneToken]), nonce))
        s4 == LocalSave(s3,
                  storage_key(u.username, blockchain_addr, "config"),
                  StorageEncrypt(u.encryption,
                                 SerializeConfig(blockchain_config), nonce))
    IN IF fail_at = "signature" THEN [ok |-> FALSE, store |-> store]
       ELSE IF fail_at = "validators" THEN [ok |-> FALSE, store |-> s1]
       ELSE IF fail_at = "access_tokens" THEN [ok |-> FALSE, store |-> s2]
       ELSE IF fail_at = "config" THEN [ok |-> FALSE, store |-> s3]
       ELSE [ok |-> TRUE, store |-> s4]

\* blockchain::create_in_storage, returning at the step fail_at with the
\* records saved before it.
create_in_storage(store, u, blockchain_addr, blockchain_config, fail_at, sk, salt, nonce) ==
    LET s1 == LocalSave(store,
                  storage_key(u.username, blockchain_addr, "signature"),
                  StorageEncrypt(u.encryption, <<sk>>, nonce))
        s2 == LocalSave(s1,
                  storage_key(u.username, blockchain_addr, "validators"),
                  StorageEncrypt(u.encryption,
                      SerializeValidators(blockchain_config,
                                          get_public_key(sk), salt), nonce))
        s3 == LocalSave(s2,
                  storage_key(u.username, blockchain_addr, "access_tokens"),
                  StorageEncrypt(u.encryption,
                      SerializeTokens([i \in 1..Len(blockchain_config.authorities)
                                          |-> NoneToken]), nonce))
        s4 == LocalSave(s3,
                  storage_key(u.username, blockchain_addr, "config"),
                  StorageEncrypt(u.encryption,
                                 SerializeConfig(blockchain_config), nonce))
    IN IF fail_at = "signature" THEN [ok |-> FALSE, store |-> store]
       ELSE IF fail_at = "validators" THEN [ok |-> FALSE, store |-> s1]
       ELSE IF fail_at = "access_tokens" THEN [ok |-> FALSE, store |-> s2]
       ELSE IF fail_at = "config" THEN [ok |-> FALSE, store |-> s3]
       ELSE [ok |-> TRUE, store |-> s4]

Contains(list, x) == \E i \in 1..Len(list) : list[i] = x

\* User::add_blockchain
add_blockchain(u, store, blockchain, blockchain_config, fail_at, sk, salt, nonce) ==
    IF Contains(u.blockchains, blockchain)
    THEN [ok |-> FALSE, error |-> "Blockchain already added", user |-> u,
          store |-> store]
    ELSE LET u1 == [u EXCEPT !.blockchains = Append(@, blockchain)]
             s1 == LocalSave(store, user_key(u.username),
                       StorageEncrypt(u.encryption,
                                      SerializeBlockchains(u1.blockchains),
                                      nonce))
             c == create_in_storage(s1, u1, blockchain, blockchain_config,
                                    fail_at, sk, salt, nonce)
         IN IF fail_at = "list"
            THEN [ok |-> FALSE, error |-> "failed", user |-> u1,
                  store |-> store]
            ELSE [ok |-> c.ok, error |-> IF c.ok THEN "" ELSE "failed",
                  user |-> u1, store |-> c.store]

\* User::remove_blockchain
remove_blockchain(u, store, blockchain, nonce) ==
    IF ~Contains(u.blockchains, blockchain)
    THEN [ok |-> FALSE, error |-> "User is not a member of this blockchain",
          user |-> u, store |-> store]
    ELSE LET u1 == [u EXCEPT !.blockchains =
                        SelectSeq(@, LAMBDA b : b # blockchain)]
             s1 == LocalSave(store, user_key(u.username),
                       StorageEncrypt(u.encryption,
                                      SerializeBlockchains(u1.blockchains),
                                      nonce))
         IN [ok |-> TRUE, error |-> "", user |-> u1,
             store |-> delete_from_storage(s1, u.username, blockchain)]

\* User::delete: delete_from_storage for every blockchain of the list, then
\* the list itself.
RECURSIVE DeleteBlockchainsFrom(_, _, _, _)
DeleteBlockchainsFrom(store, username, blockchains, i) ==
    IF i > Len(blockchains) THEN store
    ELSE DeleteBlockchainsFrom(
            delete_from_storage(store, username, blockchains[i]),
            username, blockchains, i + 1)

UserDelete(u, store) ==
    LocalDelete(DeleteBlockchainsFrom(store, u.username, u.blockchains, 1),
                user_key(u.username))

\* The keys of store2 whose record was written since store.
Written(store, store2) ==
    {k \in DOMAIN store2 : k \notin DOMAIN store \/ store[k] # store2[k]}

Touch(acc, username, store, store2) ==
    [acc EXCEPT ![username].written = @ \cup Written(store, store2)]

InitUser ==
    /\ browser = NoRecords /\ user_signal = NoneUser
    /\ accounts = [u \in UserNames |-> NoAccount] /\ user_op = NoUserOp
    /\ CoreIdle /\ StateIdle /\ CryptoIdle /\ AuthorityIdle

\* The registration form is submitted.
Register ==
    \E username \in UserNames, password \in Passwords, uuid \in Uuids :
        LET r == UserRegister(browser, username, password, uuid, 1) IN
        /\ user_op.n < MaxUserCalls
        /\ ~user_signal.some
        /\ browser' = r.store
        /\ user_signal' = IF r.ok THEN Some(r.user) ELSE user_signal
        /\ accounts' =
            IF r.ok
            THEN [accounts EXCEPT ![username] =
                    [some |-> TRUE, password |-> password,
                     written |-> {user_key(username)}]]
            ELSE accounts
        /\ user_op' = [n |-> user_op.n + 1, op |-> "register", ok |-> r.ok, error |-> r.error,
                       username |-> username, blockchain |-> ""]
        /\ UNCHANGED <<coreVars, stateVars, cryptoVars, authorityVars>>

\* The login form is submitted.
Login ==
    \E username \in UserNames, password \in Passwords :
        LET r == UserLogin(browser, username, password) IN
        /\ user_op.n < MaxUserCalls
        /\ ~user_signal.some
        /\ user_signal' = IF r.ok THEN Some(r.user) ELSE user_signal
        /\ user_op' = [n |-> user_op.n + 1, op |-> "login", ok |-> r.ok, error |-> r.error,
                       username |-> username, blockchain |-> ""]
        /\ UNCHANGED <<browser, accounts>>
        /\ UNCHANGED <<coreVars, stateVars, cryptoVars, authorityVars>>

\* The user logs out or the page is loaded again: the signal holds None.
Logout ==
    /\ user_op.n < MaxUserCalls
    /\ user_signal.some
    /\ user_signal' = NoneUser
    /\ user_op' = [n |-> user_op.n + 1, op |-> "logout", ok |-> TRUE, error |-> "",
                   username |-> user_signal.v.username, blockchain |-> ""]
    /\ UNCHANGED <<browser, accounts>>
    /\ UNCHANGED <<coreVars, stateVars, cryptoVars, authorityVars>>

\* new_blockchain: add_blockchain on the user held by the signal.  The
\* signing key, the blinding salt and the nonce drawn are the first ones.
AddBlockchain ==
    \E blockchain \in UserAddrs, fail_at \in FailPoints :
        LET r == add_blockchain(user_signal.v, browser, blockchain,
                                UserElectionConfig, fail_at, 1, 1, 1)
        IN /\ user_op.n < MaxUserCalls
           /\ user_signal.some
           /\ browser' = r.store
           /\ user_signal' = Some(r.user)
           /\ accounts' = Touch(accounts, user_signal.v.username, browser,
                                r.store)
           /\ user_op' = [n |-> user_op.n + 1, op |-> "add_blockchain", ok |-> r.ok,
                          error |-> r.error,
                          username |-> user_signal.v.username,
                          blockchain |-> blockchain]
           /\ UNCHANGED <<coreVars, stateVars, cryptoVars, authorityVars>>

\* delete_blockchain: remove_blockchain on the user held by the signal.
RemoveBlockchain ==
    \E blockchain \in UserAddrs :
        LET r == remove_blockchain(user_signal.v, browser, blockchain, 1)
        IN /\ user_op.n < MaxUserCalls
           /\ user_signal.some
           /\ browser' = r.store
           /\ user_signal' = Some(r.user)
           /\ accounts' = Touch(accounts, user_signal.v.username, browser,
                                r.store)
           /\ user_op' = [n |-> user_op.n + 1, op |-> "remove_blockchain", ok |-> r.ok,
                          error |-> r.error,
                          username |-> user_signal.v.username,
                          blockchain |-> blockchain]
           /\ UNCHANGED <<coreVars, stateVars, cryptoVars, authorityVars>>

\* User::delete consumes the user.
DeleteUser ==
    /\ user_op.n < MaxUserCalls
    /\ user_signal.some
    /\ browser' = UserDelete(user_signal.v, browser)
    /\ user_signal' = NoneUser
    /\ accounts' = [accounts EXCEPT ![user_signal.v.username] = NoAccount]
    /\ user_op' = [n |-> user_op.n + 1, op |-> "delete", ok |-> TRUE, error |-> "",
                   username |-> user_signal.v.username, blockchain |-> ""]
    /\ UNCHANGED <<coreVars, stateVars, cryptoVars, authorityVars>>

\* Candidate::choose after an accepted vote of an election of the list: the
\* record is stored under the address the vote was sent to.
ChooseCandidate ==
    \E addr \in UserAddrs, c \in UserCandidates :
        /\ user_op.n < MaxUserCalls
        /\ user_signal.some
        /\ Len(user_signal.v.blockchains) > 0
        /\ browser' = LocalSave(browser,
                storage_key(user_signal.v.username, addr, "candidate"),
                StorageEncrypt(user_signal.v.encryption, Digits(c), 1))
        /\ accounts' = Touch(accounts, user_signal.v.username, browser,
                             browser')
        /\ user_op' = [n |-> user_op.n + 1, op |-> "choose", ok |-> TRUE, error |-> "",
                       username |-> user_signal.v.username,
                       blockchain |-> addr]
        /\ UNCHANGED user_signal
        /\ UNCHANGED <<coreVars, stateVars, cryptoVars, authorityVars>>

NextUser ==
    \/ Register
    \/ Login
    \/ Logout
    \/ AddBlockchain
    \/ RemoveBlockchain
    \/ DeleteUser
    \/ ChooseCandidate

SpecUser == InitUser /\ [][NextUser]_vars

UserCall(name) == user_op'.n # user_op.n /\ user_op'.op = name

\* The list of blockchains a login of username with the registered password
\* reads from the store.
PersistedBlockchains(store, acc, username) ==
    UserLogin(store, username, acc[username].password).user.blockchains

NoRecordOf(store, username, blockchain, records) ==
    \A r \in records : storage_key(username, blockchain, r) \notin DOMAIN store

\* C23: add_blockchain is all-or-nothing: when a step after the duplicate
\* check fails, the address is in neither the in-memory list nor the persisted
\* list and no signature, validators, access_tokens or config record of it is
\* left.
C23_AddBlockchainAllOrNothing ==
    [][(UserCall("add_blockchain") /\ ~user_op'.ok
            /\ user_op'.error # "Blockchain already added") =>
        /\ ~Contains(user_signal'.v.blockchains, user_op'.blockchain)
        /\ ~Contains(PersistedBlockchains(browser', accounts',
                                          user_op'.username),
                     user_op'.blockchain)
        /\ NoRecordOf(browser', user_op'.username, user_op'.blockchain,
                      BlockchainRecords)]_vars

\* C24: after remove_blockchain(b), and after User::delete for every
\* blockchain of the list, no per-blockchain record of b (signature,
\* validators, access_tokens, candidate, config) remains and b is not in the
\* persisted list; a blockchain that is added starts with no candidate.
C24_RemoveLeavesNoRecord ==
    [][/\ (UserCall("remove_blockchain") /\ user_op'.ok) =>
            /\ NoRecordOf(browser', user_op'.username, user_op'.blockchain,
                          PerBlockchainRecords)
            /\ ~Contains(PersistedBlockchains(browser', accounts',
                                              user_op'.username),
                         user_op'.blockchain)
       /\ UserCall("delete") =>
            /\ user_key(user_op'.username) \notin DOMAIN browser'
            /\ \A i \in 1..Len(user_signal.v.blockchains) :
                    NoRecordOf(browser', user_op'.username,
                               user_signal.v.blockchains[i],
                               PerBlockchainRecords)
       /\ (UserCall("add_blockchain") /\ user_op'.ok) =>
            CandidateLoad(browser', user_signal'.v, user_op'.blockchain)
                = [ok |-> TRUE, candidate |-> NoneId]]_vars

\* C25: User::register fails with "User already exists" whenever an entry is
\* stored under the username, and leaves the store unchanged; otherwise it
\* stores under the username the empty list of blockchains, readable with
\* the registered password only, and touches no other entry.
C25_RegisterOnlyFreshUsername ==
    [][UserCall("register") =>
        IF user_key(user_op'.username) \in DOMAIN browser
        THEN /\ ~user_op'.ok /\ user_op'.error = "User already exists"
             /\ browser' = browser /\ user_signal' = user_signal
        ELSE /\ user_op'.ok
             /\ DOMAIN browser' = DOMAIN browser \cup {user_key(user_op'.username)}
             /\ \A k \in DOMAIN browser : browser'[k] = browser[k]
             /\ StorageDecrypt(browser'[user_key(user_op'.username)],
                               user_signal'.v.encryption)
                    = [ok |-> TRUE, plaintext |-> SerializeBlockchains(<<>>)]
             /\ \A q \in Passwords :
                    UserLogin(browser', user_op'.username, q).ok
                        <=> q = accounts'[user_op'.username].password]_vars

\* A registration was refused because the username is taken.
C25_Witness ==
    /\ user_op.op = "register" /\ ~user_op.ok
    /\ user_op.error = "User already exists"

\* C26: after register(u, p) and successful add_blockchain and
\* remove_blockchain calls, login(u, p) succeeds and returns exactly the current
\* list, and the key it derives decrypts every per-blockchain record written
\* since the registration; a login with another password fails, and so does a
\* login of a username that is not registered.
C26_LoginRestoresProfile ==
    /\ [](\A u \in UserNames, q \in Passwords :
            UserLogin(browser, u, q).ok =>
                accounts[u].some /\ q = accounts[u].password)
    /\ [][(user_op'.n # user_op.n /\ user_op'.ok
            /\ user_op'.op \in {"register", "add_blockchain",
                                "remove_blockchain", "login"}) =>
          LET u == user_op'.username
              l == UserLogin(browser', u, accounts'[u].password)
          IN /\ l.ok
             /\ l.user = user_signal'.v
             /\ \A k \in accounts'[u].written \cap DOMAIN browser' :
                    StorageDecrypt(browser'[k], l.user.encryption).ok]_vars

\* A login in a later session returned a non-empty list and a key that opens
\* the signature record written in an earlier session.
C26_Witness ==
    /\ user_op.op = "login" /\ user_op.ok
    /\ Len(user_signal.v.blockchains) >= 1
    /\ \E b \in UserAddrs :
        /\ Contains(user_signal.v.blockchains, b)
        /\ storage_key(user_signal.v.username, b, "signature")
                \in accounts[user_signal.v.username].written \cap DOMAIN browser
        /\ SignatureLoad(browser, user_signal.v, b).ok

----------------------------------------------------------------------------
(* Specification of the crypto subcrate's round trips:                     *)
(* signature/blind_sign.rs and encryption/symmetric.rs                     *)

\* TryFrom<PublicKey>: the DER bytes parsed into the RSA public key.
pk_from_der(pk) ==
    IF Len(pk) = 1 /\ pk[1] > 100 /\ pk[1] <= 100 + NAuthorities
    THEN [ok |-> TRUE, key |-> pk[1] - 100]
    ELSE [ok |-> FALSE, key |-> 0]

\* SecretKey to DER and back (TryFrom<SecretKey>).
sk_to_der(sk) == <<300 + sk>>
sk_from_der(sk) ==
    IF Len(sk) = 1 /\ sk[1] > 300 /\ sk[1] <= 300 + NAuthorities
    THEN [ok |-> TRUE, key |-> sk[1] - 300]
    ELSE [ok |-> FALSE, key |-> 0]

\* BlindSigner::new: the generated key pair ask.
BlindSignerNew(ask) == [pk |-> ask, sk |-> ask]

\* BlindSigner::get_public_key, BlindSigner::get_secret_key: DER bytes.
BlindSignerPublicKey(signer) == authority_public_key(signer.pk)
get_secret_key(signer) == sk_to_der(signer.sk)

\* BlindSigner::new_from_keys
new_from_keys(pk, sk) ==
    LET p == pk_from_der(pk)
        s == sk_from_der(sk)
    IN IF p.ok /\ s.ok
       THEN [ok |-> TRUE, signer |-> [pk |-> p.key, sk |-> s.key]]
       ELSE [ok |-> FALSE, signer |-> [pk |-> 0, sk |-> 0]]

\* Unblinder::get_unblinding_secret
get_unblinding_secret(unblinder) == unblinder.secret

from_pk_and_secret_without_secret(pk, unblinding_secret) ==
    LET p == pk_from_der(pk) IN
    IF p.ok
    THEN [ok |-> TRUE,
          unblinder |-> [pk |-> authority_public_key(p.key), secret |-> <<>>]]
    ELSE [ok |-> FALSE, unblinder |-> [pk |-> <<>>, secret |-> <<>>]]

\* Unblinder::from_pk_and_secret
from_pk_and_secret(pk, unblinding_secret) ==
    LET p == pk_from_der(pk) IN
    IF p.ok
    THEN [ok |-> TRUE,
          unblinder |-> [pk |-> authority_public_key(p.key),
                         secret |-> unblinding_secret]]
    ELSE [ok |-> FALSE, unblinder |-> [pk |-> <<>>, secret |-> <<>>]]

\* The messages blinded (voter public keys), the blinding factors, and the
\* plaintexts encrypted.
BlindedMessages == {get_public_key(sk) : sk \in SignerKeys}
BlindingFactors == 1..NSalts
Plaintexts == {<<>>, <<5>>, <<5, 6>>}

InitCrypto ==
    /\ blind_run = NoBlindExchange /\ sym = NoRoundTrip
    /\ CoreIdle /\ StateIdle /\ UserIdle /\ AuthorityIdle

\* Signer: BlindSigner::new
GenerateSigner ==
    \E ask \in AuthorityKeys :
        /\ blind_run.stage = "start"
        /\ blind_run' = [blind_run EXCEPT !.stage = "keys",
                                          !.signer = BlindSignerNew(ask)]
        /\ UNCHANGED sym
        /\ UNCHANGED <<coreVars, stateVars, userVars, authorityVars>>

\* Signer: saved and rebuilt with new_from_keys.
RebuildSigner ==
    LET r == new_from_keys(BlindSignerPublicKey(blind_run.signer),
                           get_secret_key(blind_run.signer))
    IN /\ blind_run.stage \in {"keys", "blinded"}
       /\ ~blind_run.signer_rebuilt
       /\ r.ok
       /\ blind_run' = [blind_run EXCEPT !.signer = r.signer,
                                         !.signer_rebuilt = TRUE]
       /\ UNCHANGED sym
       /\ UNCHANGED <<coreVars, stateVars, userVars, authorityVars>>

\* User: Blinder::new(pk), Blinder::blind(msg)
BlindMessage ==
    \E msg \in BlindedMessages, r \in BlindingFactors, salt \in Salts :
        LET pk == BlindSignerPublicKey(blind_run.signer)
            b == blind(pk, msg, r, salt)
        IN /\ blind_run.stage = "keys"
           /\ blind_run' = [blind_run EXCEPT
                                !.stage = "blinded", !.msg = msg,
                                !.blind_msg = b.blind_msg,
                                !.unblinder = [pk |-> pk, secret |-> b.secret]]
           /\ UNCHANGED sym
           /\ UNCHANGED <<coreVars, stateVars, userVars, authorityVars>>

\* Signer: BlindSigner::bling_sign
BlindSign ==
    /\ blind_run.stage = "blinded"
    /\ blind_run' = [blind_run EXCEPT
                        !.stage = "signed",
                        !.blind_signature = bling_sign(blind_run.signer.sk,
                                                       blind_run.blind_msg)]
    /\ UNCHANGED sym
    /\ UNCHANGED <<coreVars, stateVars, userVars, authorityVars>>

\* User: the Unblinder stored as its secret and rebuilt.
RebuildUnblinder ==
    LET r == from_pk_and_secret(blind_run.unblinder.pk,
                                get_unblinding_secret(blind_run.unblinder))
    IN /\ blind_run.stage \in {"blinded", "signed"}
       /\ ~blind_run.unblinder_rebuilt
       /\ r.ok
       /\ blind_run' = [blind_run EXCEPT !.unblinder = r.unblinder,
                                         !.unblinder_rebuilt = TRUE]
       /\ UNCHANGED sym
       /\ UNCHANGED <<coreVars, stateVars, userVars, authorityVars>>

\* User: Unblinder::unblind_signature
Unblind ==
    /\ blind_run.stage = "signed"
    /\ blind_run' = [blind_run EXCEPT
                        !.stage = "done",
                        !.token = unblind_signature(blind_run.unblinder.pk,
                                                    blind_run.unblinder.secret,
                                                    blind_run.blind_signature,
                                                    blind_run.msg)]
    /\ UNCHANGED sym
    /\ UNCHANGED <<coreVars, stateVars, userVars, authorityVars>>

\* Encryption::new(username, password), then Encryption::encrypt
Encrypt ==
    \E username \in Usernames, password \in Passwords, uuid \in Uuids,
       nonce \in Nonces, plaintext \in Plaintexts :
        LET e == encrypt(EncryptionNew(username, password, uuid), plaintext,
                         nonce)
        IN /\ sym.stage = "start"
           /\ sym' = [sym EXCEPT !.stage = "encrypted",
                                 !.username = username,
                                 !.password = password,
                                 !.plaintext = plaintext,
                                 !.metadata = e.metadata, !.bytes = e.bytes]
           /\ UNCHANGED blind_run
           /\ UNCHANGED <<coreVars, stateVars, userVars, authorityVars>>

\* Encryption::load(username, password, metadata), then Encryption::decrypt
Decrypt ==
    \E username \in Usernames, password \in Passwords :
        /\ sym.stage = "encrypted"
        /\ sym' = [sym EXCEPT
                    !.stage = "decrypted",
                    !.with_username = username,
                    !.with_password = password,
                    !.result = decrypt(EncryptionLoad(username, password,
                                                      sym.metadata),
                                       sym.bytes, sym.metadata)]
        /\ UNCHANGED blind_run
        /\ UNCHANGED <<coreVars, stateVars, userVars, authorityVars>>

NextCrypto ==
    \/ GenerateSigner
    \/ RebuildSigner
    \/ BlindMessage
    \/ BlindSign
    \/ RebuildUnblinder
    \/ Unblind
    \/ Encrypt
    \/ Decrypt

SpecCrypto == InitCrypto /\ [][NextCrypto]_vars

\* C27: unblinding an honestly produced blind signature gives a signature
\* that verify_signature accepts for the message under the signer's public
\* key, whether or not the BlindSigner was rebuilt with new_from_keys and the
\* Unblinder with from_pk_and_secret.
C27_UnblindedSignatureVerifies ==
    blind_run.stage = "done" =>
        /\ blind_run.token.ok
        /\ verify_signature(BlindSignerPublicKey(blind_run.signer),
                            blind_run.token.sig, blind_run.msg)

\* An exchange ended with both the signer and the unblinder rebuilt.
C27_Witness ==
    /\ blind_run.stage = "done"
    /\ blind_run.signer_rebuilt /\ blind_run.unblinder_rebuilt
    /\ blind_run.token.ok

\* C28: decrypting the output of encrypt with an Encryption loaded from the
\* same credentials and the returned metadata gives back the plaintext;
\* with an Encryption loaded from a different password it fails with
\* Decryption.
C28_EncryptionRoundTrip ==
    sym.stage = "decrypted" =>
        /\ (sym.with_username = sym.username
                /\ sym.with_password = sym.password) =>
            /\ sym.result.ok
            /\ sym.result.plaintext = sym.plaintext
        /\ sym.with_password # sym.password =>
            /\ ~sym.result.ok
            /\ sym.result.error = "Decryption"

\* A non-empty plaintext came back under the same credentials.
C28_Witness ==
    /\ sym.stage = "decrypted"
    /\ sym.with_username = sym.username /\ sym.with_password = sym.password
    /\ sym.plaintext # <<>>
    /\ sym.result.ok

----------------------------------------------------------------------------
(* Specification of the mock authority's key setup:                        *)
(* subcrates/mock_authority/src/main.rs                                    *)

MaxRestarts == 4   \* starts of the authority process

\* serde_json of AuthorityConfig {pk, sk}.
SerializeAuthorityConfig(c) == <<Len(c.pk)>> \o c.pk \o c.sk

\* AuthorityConfig::load_from_fs: the file read and parsed.
load_from_fs(file) ==
    IF /\ file.exists
       /\ Len(file.bytes) >= 1
       /\ file.bytes[1] >= 1
       /\ Len(file.bytes) > file.bytes[1] + 1
    THEN [ok |-> TRUE,
          config |-> [pk |-> SubSeq(file.bytes, 2, file.bytes[1] + 1),
                      sk |-> Drop(file.bytes, file.bytes[1] + 1)]]
    ELSE [ok |-> FALSE, config |-> [pk |-> <<>>, sk |-> <<>>]]

\* load_blind_signer_from_fs
load_blind_signer_from_fs(file) ==
    LET c == load_from_fs(file) IN
    IF c.ok THEN new_from_keys(c.config.pk, c.config.sk)
    ELSE [ok |-> FALSE, signer |-> [pk |-> 0, sk |-> 0]]

\* AuthorityConfig::save_to_fs: open with create and truncate, then write;
\* either step may fail.
SaveOutcomes == {"ok", "open_fails", "write_fails"}
save_to_fs(c, file, save_outcome) ==
    IF save_outcome = "open_fails" THEN [ok |-> FALSE, file |-> file]
    ELSE IF save_outcome = "write_fails"
    THEN [ok |-> FALSE, file |-> [exists |-> TRUE, bytes |-> <<>>]]
    ELSE [ok |-> TRUE,
          file |-> [exists |-> TRUE, bytes |-> SerializeAuthorityConfig(c)]]

\* new_blind_signer: the key pair ask is generated and saved.
new_blind_signer(file, ask, save_outcome) ==
    LET blind_signer == BlindSignerNew(ask)
        sv == save_to_fs([pk |-> BlindSignerPublicKey(blind_signer),
                          sk |-> get_secret_key(blind_signer)],
                         file, save_outcome)
    IN [ok |-> sv.ok, signer |-> blind_signer, file |-> sv.file]

RemoveOutcomes == {"ok", "denied"}

setup_blind_signer_always_new(new_keys, file, ask, remove_outcome, save_outcome) ==
    LET n == new_blind_signer(file, ask, save_outcome) IN
    [ok |-> n.ok, signer |-> n.signer, file |-> n.file, loaded |-> FALSE,
     generated |-> n.ok]

\* setup_blind_signer
setup_blind_signer(new_keys, file, ask, remove_outcome, save_outcome) ==
    IF new_keys /\ file.exists /\ remove_outcome = "denied"
    THEN [ok |-> FALSE, signer |-> NoSigner.v, file |-> file,
          loaded |-> FALSE, generated |-> FALSE]
    ELSE LET file1 == IF new_keys THEN NoFile ELSE file
             l == load_blind_signer_from_fs(file1)
             n == new_blind_signer(file1, ask, save_outcome)
         IN IF l.ok
            THEN [ok |-> TRUE, signer |-> l.signer, file |-> file1,
                  loaded |-> TRUE, generated |-> FALSE]
            ELSE [ok |-> n.ok, signer |-> n.signer, file |-> n.file,
                  loaded |-> FALSE, generated |-> n.ok]

\* What the config file may become while the authority is down: text that
\* does not parse, or keys that do not.
BrokenFiles ==
    {[exists |-> TRUE, bytes |-> <<>>], [exists |-> TRUE, bytes |-> <<1, 0, 0>>]}

InitAuthority ==
    /\ auth_file = NoFile /\ auth_signer = NoSigner
    /\ auth_op = NoAuthorityOp
    /\ CoreIdle /\ StateIdle /\ UserIdle /\ CryptoIdle

\* main: the authority process starts; a failed setup ends it.
Start ==
    \E new_keys \in BOOLEAN, ask \in AuthorityKeys,
       remove_outcome \in RemoveOutcomes, save_outcome \in SaveOutcomes :
        LET r == setup_blind_signer(new_keys, auth_file, ask, remove_outcome,
                                    save_outcome)
        IN /\ auth_op.n < MaxRestarts
           /\ auth_file' = r.file
           /\ auth_signer' = IF r.ok THEN [some |-> TRUE, v |-> r.signer]
                             ELSE NoSigner
           /\ auth_op' = [n |-> auth_op.n + 1, op |-> "start",
                          new_keys |-> new_keys, loaded |-> r.loaded,
                          generated |-> r.generated, ok |-> r.ok,
                          last_generated |->
                            IF r.generated THEN r.signer
                            ELSE auth_op.last_generated]
           /\ UNCHANGED <<coreVars, stateVars, userVars, cryptoVars>>

\* The config file is removed while the authority is down.
FileRemoved ==
    /\ auth_file.exists
    /\ auth_file' = NoFile
    /\ auth_signer' = NoSigner
    /\ auth_op' = [auth_op EXCEPT !.op = "file_removed"]
    /\ UNCHANGED <<coreVars, stateVars, userVars, cryptoVars>>

\* The config file is damaged while the authority is down.
FileDamaged ==
    \E file \in BrokenFiles :
        /\ auth_file.exists
        /\ auth_file' = file
        /\ auth_signer' = NoSigner
        /\ auth_op' = [auth_op EXCEPT !.op = "file_damaged"]
        /\ UNCHANGED <<coreVars, stateVars, userVars, cryptoVars>>

NextAuthority ==
    \/ Start
    \/ FileRemoved
    \/ FileDamaged

SpecAuthority == InitAuthority /\ [][NextAuthority]_vars

\* C30: a start with new_keys = false that finds a readable, valid config
\* file returns the key pair of the file, which is the pair generated last,
\* and leaves the file as it is; a key pair is generated and saved only when
\* new_keys is set or loading the file fails.
C30_KeysSurviveRestarts ==
    /\ [](load_blind_signer_from_fs(auth_file).ok =>
            load_blind_signer_from_fs(auth_file).signer
                = auth_op.last_generated)
    /\ [][auth_op'.n # auth_op.n =>
            /\ (~auth_op'.new_keys /\ load_blind_signer_from_fs(auth_file).ok)
                => /\ auth_op'.ok /\ auth_op'.loaded /\ ~auth_op'.generated
                   /\ auth_signer'.v = auth_op.last_generated
                   /\ BlindSignerPublicKey(auth_signer'.v)
                        = load_from_fs(auth_file).config.pk
                   /\ auth_file' = auth_file
            /\ auth_op'.generated =>
                auth_op'.new_keys \/ ~load_blind_signer_from_fs(auth_file).ok
            /\ auth_file' # auth_file =>
                auth_op'.new_keys \/ ~load_blind_signer_from_fs(auth_file).ok
          ]_vars

\* The authority was started again without new_keys and loaded its keys.
C30_Witness ==
    /\ auth_op.n >= 2 /\ auth_op.op = "start"
    /\ ~auth_op.new_keys /\ auth_op.loaded /\ auth_signer.some
    /\ auth_signer.v = auth_op.last_generated

----------------------------------------------------------------------------
(* The per-blockchain records read back: states/signature.rs, config.rs,   *)
(* validators.rs, access_tokens.rs                                         *)

\* serde_json parse of the AccessTokens vector.
RECURSIVE DeserializeTokens(_)
DeserializeTokens(bytes) ==
    IF bytes = <<>> THEN <<>>
    ELSE IF bytes[1] = 0
         THEN <<NoneToken>> \o DeserializeTokens(Drop(bytes, 1))
         ELSE <<Some(SubSeq(bytes, 3, 2 + bytes[2]))>>
                  \o DeserializeTokens(Drop(bytes, 2 + bytes[2]))

\* AccessTokens::load
AccessTokensLoad(store, user, blockchain) ==
    LET key == storage_key(user.username, blockchain, "access_tokens") IN
    IF key \notin DOMAIN store THEN [ok |-> FALSE, tokens |-> <<>>]
    ELSE LET d == StorageDecrypt(store[key], user.encryption) IN
         IF d.ok THEN [ok |-> TRUE, tokens |-> DeserializeTokens(d.plaintext)]
         ELSE [ok |-> FALSE, tokens |-> <<>>]

\* serde_json parse of Config.
DeserializeConfig(bytes) ==
    [authorities |-> bytes[1], nodes |-> bytes[2], candidates |-> bytes[3]]

\* Config::load
ConfigLoad(store, user, blockchain) ==
    LET key == storage_key(user.username, blockchain, "config") IN
    IF key \notin DOMAIN store
    THEN [ok |-> FALSE, config |-> DeserializeConfig(<<<<>>, <<>>, <<>>>>)]
    ELSE LET d == StorageDecrypt(store[key], user.encryption) IN
         IF d.ok THEN [ok |-> TRUE, config |-> DeserializeConfig(d.plaintext)]
         ELSE [ok |-> FALSE, config |-> DeserializeConfig(<<<<>>, <<>>, <<>>>>)]

\* Validators::load: per stored pair the blinded key and the unblinder
\* rebuilt from the authority key of the same index and the stored secret.
ValidatorsLoad(blockchain_config, store, user, blockchain) ==
    LET key == storage_key(user.username, blockchain, "validators") IN
    IF key \notin DOMAIN store THEN [ok |-> FALSE, validators |-> <<>>]
    ELSE LET d == StorageDecrypt(store[key], user.encryption) IN
         IF ~d.ok \/ Len(d.plaintext) > Len(blockchain_config.authorities)
         THEN [ok |-> FALSE, validators |-> <<>>]
         ELSE LET u == [i \in 1..Len(d.plaintext) |->
                           from_pk_and_secret(blockchain_config.authorities[i],
                                              d.plaintext[i][2])]
              IN IF \E i \in 1..Len(u) : ~u[i].ok
                 THEN [ok |-> FALSE, validators |-> <<>>]
                 ELSE [ok |-> TRUE,
                       validators |-> [i \in 1..Len(u) |->
                           [blinded_pk |-> d.plaintext[i][1],
                            unblinder |-> u[i].unblinder]]]

\* Validators::validate; index counts from 0.
ValidatorsValidate(validators, signer, index, blind_signature) ==
    IF Len(validators) <= index
    THEN [ok |-> FALSE, error |-> "Validator index does not exist",
          sig |-> <<>>]
    ELSE LET u == unblind_signature(validators[index + 1].unblinder.pk,
                                    validators[index + 1].unblinder.secret,
                                    blind_signature, get_public_key(signer))
         IN [ok |-> u.ok, error |-> IF u.ok THEN "" ELSE "Unblinding",
             sig |-> u.sig]

\* The secret key of the authority whose public key is pk.
AuthoritySecretOf(pk) == pk_from_der(pk).key

\* The stored pair blinds voter_pk for the authority pk: what the authority
\* signs for it unblinds, with the stored secret, to a token over voter_pk.
BlindsFor(validator, pk, voter_pk) ==
    /\ pk_from_der(pk).ok
    /\ validator.unblinder.pk = pk
    /\ LET blind_signature == bling_sign(AuthoritySecretOf(pk),
                                         validator.blinded_pk)
           u == unblind_signature(pk, validator.unblinder.secret,
                                  blind_signature, voter_pk)
       IN u.ok /\ verify_signature(pk, u.sig, voter_pk)

\* C34: after a successful add_blockchain(b, config) with k authorities the
\* store holds for b a signing-key record, a validators record of exactly k
\* pairs, in authority order, that all blind the public key of that signing
\* key, an access-token vector of k entries that are all None, and the
\* election config; and b is in the persisted list of blockchains.
C34_AddBlockchainCreatesRecords ==
    [][(UserCall("add_blockchain") /\ user_op'.ok) =>
        LET u == user_signal'.v
            b == user_op'.blockchain
            k == Len(UserElectionConfig.authorities)
            sig == SignatureLoad(browser', u, b)
            cfg == ConfigLoad(browser', u, b)
            val == ValidatorsLoad(UserElectionConfig, browser', u, b)
            tok == AccessTokensLoad(browser', u, b)
        IN /\ sig.ok
           /\ val.ok /\ Len(val.validators) = k
           /\ \A i \in 1..k :
                BlindsFor(val.validators[i],
                          UserElectionConfig.authorities[i],
                          get_public_key(sig.signer))
           /\ tok.ok /\ Len(tok.tokens) = k
           /\ \A i \in 1..k : tok.tokens[i] = NoneToken
           /\ cfg.ok /\ cfg.config = UserElectionConfig
           /\ Contains(PersistedBlockchains(browser', accounts',
                                            user_op'.username), b)]_vars

C34_Witness ==
    /\ user_op.op = "add_blockchain" /\ user_op.ok
    /\ user_signal.some
    /\ Len(user_signal.v.blockchains) = 2
    /\ Len(ValidatorsLoad(UserElectionConfig, browser, user_signal.v,
                          user_op.blockchain).validators) = NAuthorities

----------------------------------------------------------------------------
(* Specification of the access tokens of one blockchain:                   *)
(* states/access_tokens.rs driven by validation.rs                         *)

MaxSetCalls == 2    \* blind signatures submitted and tokens set

\* The election config of the blockchain: every authority, in key order.
TokensConfig ==
    [authorities |-> [i \in 1..NAuthorities |-> authority_public_key(i)],
     nodes |-> <<"node1", "node2">>, candidates |-> <<0, 1>>]

AccessTokensSetUnverified(tokens, store, user, blockchain, index, access_token, cfg, signer, save_fails) ==
    IF Len(tokens) <= index
    THEN [ok |-> FALSE, error |-> "Access token index does not exist",
          tokens |-> tokens, store |-> store]
    ELSE LET tokens1 == [tokens EXCEPT ![index + 1] = access_token] IN
         IF save_fails
         THEN [ok |-> FALSE, error |-> "Encryption", tokens |-> tokens1,
               store |-> store]
         ELSE [ok |-> TRUE, error |-> "", tokens |-> tokens1,
               store |-> LocalSave(store,
                   storage_key(user.username, blockchain, "access_tokens"),
                   StorageEncrypt(user.encryption, SerializeTokens(tokens1),
                                  1))]

\* AccessTokens::set; index counts from 0.  Indexing the authorities of the
\* config past their end aborts.
AccessTokensSet(tokens, store, user, blockchain, index, access_token, cfg, signer, save_fails) ==
    IF Len(tokens) <= index
    THEN [ok |-> FALSE, error |-> "Access token index does not exist",
          tokens |-> tokens, store |-> store]
    ELSE IF access_token.some /\ Len(cfg.authorities) <= index
    THEN [ok |-> FALSE, error |-> "Panic", tokens |-> tokens, store |-> store]
    ELSE IF /\ access_token.some
            /\ \/ ~pk_from_der(cfg.authorities[index + 1]).ok
               \/ ~verify_signature(cfg.authorities[index + 1],
                                    access_token.v, get_public_key(signer))
    THEN [ok |-> FALSE, error |-> "Verification", tokens |-> tokens,
          store |-> store]
    ELSE LET tokens1 == [tokens EXCEPT ![index + 1] = access_token] IN
         IF save_fails
         THEN [ok |-> FALSE, error |-> "Encryption", tokens |-> tokens1,
               store |-> store]
         ELSE [ok |-> TRUE, error |-> "", tokens |-> tokens1,
               store |-> LocalSave(store,
                   storage_key(user.username, blockchain, "access_tokens"),
                   StorageEncrypt(user.encryption, SerializeTokens(tokens1),
                                  1))]

\* The arguments set may be called with: None, any token some authority
\* issued to some voter, or empty bytes.
TokenInputs == {NoneToken} \cup {Some(t) : t \in TokenUniverse}

\* The Validation component is mounted after add_blockchain: the records of
\* create_in_storage are in the store, the signal holds the vector loaded.
InitTokens ==
    /\ local_storage =
            create_in_storage(NoRecords, ClientUser, ClientBlockchain,
                              TokensConfig, "none", ClientUser.signer, 1,
                              1).store
    /\ token_vec = [i \in 1..Len(TokensConfig.authorities) |-> NoneToken]
    /\ sel_candidate = NoneId /\ sel_node = NoneNode
    /\ voted = NoneId /\ client_error = NoError
    /\ requests = <<>> /\ last_send = [n |-> 0, result |-> "none"]
    /\ token_op = NoTokenOp
    /\ VoteIdle /\ NodeIdle /\ ChainIdle /\ LedgerIdle /\ BatcherIdle
    /\ ExtIdle

\* access_tokens.set(user, blockchain, index, access_token, config,
\* signature) with the config and the signer loaded from the store.
SetToken ==
    \E index \in 0..Len(token_vec), access_token \in TokenInputs,
       save_fails \in BOOLEAN :
        LET cfg == ConfigLoad(local_storage, ClientUser, ClientBlockchain)
            sig == SignatureLoad(local_storage, ClientUser, ClientBlockchain)
            r == AccessTokensSet(token_vec, local_storage, ClientUser,
                                 ClientBlockchain, index, access_token,
                                 cfg.config, sig.signer, save_fails)
        IN /\ token_op.n < MaxSetCalls
           /\ cfg.ok /\ sig.ok
           /\ token_vec' = r.tokens
           /\ local_storage' = r.store
           /\ token_op' = [n |-> token_op.n + 1, op |-> "set",
                           index |-> index, access_token |-> access_token,
                           signed_by |-> 0, blinded_for |-> 0,
                           ok |-> r.ok, error |-> r.error]
           /\ UNCHANGED <<sel_candidate, sel_node, voted, client_error,
                          requests, last_send>>
           /\ UNCHANGED <<voteVars, nodeVars, chainVars, ledgerVars,
                          batcherVars, extVars>>

\* on_submit of entry index: the blind signature that authority signed_by
\* made over the blinded key of entry blinded_for is pasted, validated and,
\* when the validation succeeds, set.
SubmitBlindSignature ==
    \E index \in 0..(Len(token_vec) - 1), signed_by \in AuthorityKeys,
       blinded_for \in 1..Len(token_vec), save_fails \in BOOLEAN :
        LET cfg == ConfigLoad(local_storage, ClientUser, ClientBlockchain)
            sig == SignatureLoad(local_storage, ClientUser, ClientBlockchain)
            val == ValidatorsLoad(cfg.config, local_storage, ClientUser,
                                  ClientBlockchain)
            blind_signature ==
                bling_sign(signed_by, val.validators[blinded_for].blinded_pk)
            v == ValidatorsValidate(val.validators, sig.signer, index,
                                    blind_signature)
            r == AccessTokensSet(token_vec, local_storage, ClientUser,
                                 ClientBlockchain, index, Some(v.sig),
                                 cfg.config, sig.signer, save_fails)
        IN /\ token_op.n < MaxSetCalls
           /\ cfg.ok /\ sig.ok /\ val.ok
           /\ IF v.ok
              THEN /\ token_vec' = r.tokens
                   /\ local_storage' = r.store
                   /\ token_op' = [n |-> token_op.n + 1, op |-> "submit",
                                   index |-> index,
                                   access_token |-> Some(v.sig),
                                   signed_by |-> signed_by,
                                   blinded_for |-> blinded_for,
                                   ok |-> r.ok, error |-> r.error]
              ELSE /\ UNCHANGED <<token_vec, local_storage>>
                   /\ token_op' = [n |-> token_op.n + 1, op |-> "submit",
                                   index |-> index,
                                   access_token |-> NoneToken,
                                   signed_by |-> signed_by,
                                   blinded_for |-> blinded_for,
                                   ok |-> FALSE, error |-> v.error]
           /\ UNCHANGED <<sel_candidate, sel_node, voted, client_error,
                          requests, last_send>>
           /\ UNCHANGED <<voteVars, nodeVars, chainVars, ledgerVars,
                          batcherVars, extVars>>

NextTokens == SetToken \/ SubmitBlindSignature

SpecTokens == InitTokens /\ [][NextTokens]_vars

\* Entry i of the vector is None or a token of authority i over the
\* voter's own public key.
EntriesVerify(tokens) ==
    \A i \in 1..Len(tokens) :
        tokens[i].some =>
            verify_signature(TokensConfig.authorities[i], tokens[i].v,
                             get_public_key(ClientUser.signer))

\* C33: every Some entry at index i of the stored access-token vector
\* verifies under authority i's public key over the voter's own public key;
\* set stores a token only after that verification succeeded, and on a
\* failed verification (a blind signature issued by another authority, a
\* token of another voter) or an out-of-range index it returns an error and
\* leaves the in-memory vector and the stored record unchanged.
C33_StoredTokensVerify ==
    /\ [](LET l == AccessTokensLoad(local_storage, ClientUser,
                                    ClientBlockchain)
          IN l.ok /\ EntriesVerify(l.tokens) /\ EntriesVerify(token_vec))
    /\ [][token_op'.n # token_op.n =>
            LET index == token_op'.index
                fails ==
                    \/ Len(token_vec) <= index
                    \/ /\ token_op'.op = "set"
                       /\ token_op'.access_token.some
                       /\ ~verify_signature(
                              TokensConfig.authorities[index + 1],
                              token_op'.access_token.v,
                              get_public_key(ClientUser.signer))
                    \/ /\ token_op'.op = "submit"
                       /\ \/ token_op'.signed_by # index + 1
                          \/ token_op'.blinded_for # index + 1
            IN /\ fails => /\ ~token_op'.ok
                           /\ token_vec' = token_vec
                           /\ local_storage' = local_storage
               /\ token_op'.ok =>
                    /\ token_vec'[index + 1] = token_op'.access_token
                    /\ AccessTokensLoad(local_storage', ClientUser,
                                        ClientBlockchain).tokens = token_vec'
          ]_vars

\* A token is stored for the last authority, and the last call, pasting the
\* blind signature of another authority, failed.
C33_Witness ==
    /\ token_vec[Len(token_vec)].some
    /\ token_op.op = "submit" /\ ~token_op.ok
    /\ token_op.signed_by # token_op.index + 1

====
